---- MODULE Spec2Model ----
(***************************************************************************)
(* Lexical duplicate detection of the issue-triage assistant:              *)
(* utils/duplicate/cosine_duplicate.py (CosineDuplicateAnalyzer) and the   *)
(* result type of utils/models.py.                                         *)
(*                                                                         *)
(* Texts are sequences of one-character strings.  Scores are fixed-point   *)
(* numbers in units of 1/Scale; idf weights are in tenths.                 *)
(***************************************************************************)
EXTENDS Integers, Sequences, FiniteSets, TLC

VARIABLES
    similarity_threshold,   \* self.similarity_threshold
    confidence_threshold,   \* self.confidence_threshold
    vocabulary_,            \* self.vectorizer.vocabulary_ ({} until the first fit)
    roundUp,                \* the platform's floating-point error on a unit cosine
    hashSeed,               \* the string hash seed of the Python process
    new_issue,              \* the caller's new issue: [title, description]
    existing_issues,        \* the caller's candidate list
    ret,                    \* the last call and what it returned or raised
    pc,                     \* where a call of a Gemini analyzer or of the loader stands
    args,                   \* the arguments of that call
    attempt,                \* the loop variable of a retry loop
    model_calls,            \* generate_content calls made by the call so far
    log,                    \* what each attempt of the call came to, in order
    answer                  \* what the call returned or raised

\* the variables of the calls that are not the cosine analyzer's
callVars == <<pc, args, attempt, model_calls, log, answer>>

vars == <<similarity_threshold, confidence_threshold, vocabulary_, roundUp,
          hashSeed, new_issue, existing_issues, ret, pc, args, attempt,
          model_calls, log, answer>>

-----------------------------------------------------------------------------
(* Bounds and units *)

MaxIssues == 2          \* longest candidate list
MaxTopK == 2            \* largest top_k passed to find_most_similar_issues
MaxBatch == 2           \* longest batch passed to batch_detect_duplicates
MaxLen == 3             \* longest text passed to _preprocess_text on its own
Scale == 1000           \* the score 1.0: a score s stands for s / Scale

None == <<"None">>      \* Python's None where a string is expected
NoneRef == [none |-> TRUE]   \* Python's None where an object is expected
NoException == "no exception"   \* a step that raised nothing

-----------------------------------------------------------------------------
(* Characters and strings *)

LowerMap ==
    ("B" :> "b") @@ ("L" :> "l") @@ ("N" :> "n") @@ ("O" :> "o") @@ ("U" :> "u")

LowerLetters == {"a", "b", "c", "d", "e", "g", "h", "i", "l", "n", "o", "p",
                 "r", "s", "t", "u", "v", "x"}

Digits == {"0", "1"}

\* the characters in code point order
CharOrder == <<"\t", "\n", " ", "!", "0", "1", "B", "L", "N", "O", "U", "_",
               "a", "b", "c", "d", "e", "g", "h", "i", "l", "n", "o", "p",
               "r", "s", "t", "u", "v", "x">>

\* str.lower() on one character
LowerChar(c) == IF c \in DOMAIN LowerMap THEN LowerMap[c] ELSE c

\* str.lower()
Lower(s) == [i \in 1..Len(s) |-> LowerChar(s[i])] \o <<>>

\* the regular expression class \w
WordChars == LowerLetters \cup DOMAIN LowerMap \cup Digits \cup {"_"}

WordChar(c) == c \in WordChars

\* the regular expression class \s
SpaceChars == {" ", "\t", "\n"}

SpaceChar(c) == c \in SpaceChars

\* re.sub(r"[^\w\s]", " ", text)
SubSpecial(s) ==
    [i \in 1..Len(s) |-> IF WordChar(s[i]) \/ SpaceChar(s[i]) THEN s[i] ELSE " "] \o <<>>

\* re.sub(r"\s+", " ", text): every run of whitespace becomes one space
RECURSIVE SubSpaces(_)
SubSpaces(s) ==
    IF s = <<>> THEN <<>>
    ELSE IF SpaceChar(Head(s))
         THEN IF Len(s) > 1 /\ SpaceChar(s[2])
              THEN SubSpaces(Tail(s))
              ELSE <<" ">> \o SubSpaces(Tail(s))
         ELSE <<Head(s)>> \o SubSpaces(Tail(s))

RECURSIVE LStrip(_)
LStrip(s) == IF s # <<>> /\ SpaceChar(Head(s)) THEN LStrip(Tail(s)) ELSE s

RECURSIVE RStrip(_)
RStrip(s) ==
    IF s # <<>> /\ SpaceChar(s[Len(s)]) THEN RStrip(SubSeq(s, 1, Len(s) - 1)) ELSE s

\* str.strip()
Strip(s) == RStrip(LStrip(s))

\* str.split(): the maximal runs of non-whitespace characters
RECURSIVE SplitRec(_, _, _)
SplitRec(s, cur, acc) ==
    IF s = <<>> THEN (IF cur = <<>> THEN acc ELSE Append(acc, cur))
    ELSE IF SpaceChar(Head(s))
         THEN SplitRec(Tail(s), <<>>, IF cur = <<>> THEN acc ELSE Append(acc, cur))
         ELSE SplitRec(Tail(s), Append(cur, Head(s)), acc)

Split(s) == SplitRec(s, <<>>, <<>>)

\* f"{x}" of a value that is a string or None
Format(x) == IF x = None THEN <<"N", "o", "n", "e">> ELSE x

\* Python truthiness of a string or None
Truthy(x) == x # None /\ x # <<>>

Range(f) == {f[i] : i \in DOMAIN f}

Min(a, b) == IF a <= b THEN a ELSE b

\* F(v), with v evaluated once
With(v, F(_)) == CHOOSE r \in {F(x) : x \in {v}} : TRUE

-----------------------------------------------------------------------------
(* CosineDuplicateAnalyzer._preprocess_text and the two combiners *)

\* a normalizer that formats whatever it is given
PreprocessFormatted(text) == Strip(SubSpaces(SubSpecial(Lower(Format(text)))))

_preprocess_text(text) ==
    IF ~Truthy(text) THEN <<>>
    ELSE Strip(SubSpaces(SubSpecial(Lower(text))))

_combine_new_issue_text(title, description) ==
    LET title_clean == _preprocess_text(title)
        description_clean == _preprocess_text(description)
    IN  title_clean \o <<" ">> \o title_clean \o <<" ">> \o description_clean

\* a combiner that includes the title once
CombineTitleOnce(issue) ==
    _preprocess_text(issue.title) \o <<" ">> \o _preprocess_text(issue.description)

_combine_issue_text(issue) ==
    LET title == _preprocess_text(issue.title)
        description == _preprocess_text(issue.description)
    IN  title \o <<" ">> \o title \o <<" ">> \o description

-----------------------------------------------------------------------------
(* sklearn's TfidfVectorizer and cosine_similarity, as the analyzer uses them *)

\* stop_words="english", restricted to the words of the model's texts
StopWords == { <<"t", "h", "e">>, <<"o", "n">>, <<"n", "o">>, <<"n", "o", "n", "e">> }

\* token_pattern (?u)\b\w\w+\b: the maximal runs of two or more word characters
RECURSIVE TokenRec(_, _, _)
TokenRec(s, cur, acc) ==
    LET flush == IF Len(cur) >= 2 THEN Append(acc, cur) ELSE acc
    IN  IF s = <<>> THEN flush
        ELSE IF WordChar(Head(s))
             THEN TokenRec(Tail(s), Append(cur, Head(s)), acc)
             ELSE TokenRec(Tail(s), <<>>, flush)

Tokenize(doc) == TokenRec(doc, <<>>, <<>>)

\* the analyzer: lowercase, tokenize, drop stop words, then the word n-grams of
\* ngram_range=(1, ngram_max): the tokens, then the pairs of adjacent tokens
Analyze(doc, ngram_max) ==
    LET tokens == SelectSeq(Tokenize(Lower(doc)), LAMBDA t : t \notin StopWords)
        bigrams == [i \in 1..(Len(tokens) - 1) |-> tokens[i] \o <<" ">> \o tokens[i + 1]]
    IN  IF ngram_max >= 2 /\ Len(tokens) >= 2 THEN tokens \o bigrams ELSE tokens

\* term frequency: occurrences of term t in an analyzed document
Tf(t, terms) == Cardinality({i \in DOMAIN terms : terms[i] = t})

\* smooth idf, ln((1 + n) / (1 + df)) + 1, in tenths: IdfTable[n][df]
IdfTable == << <<10>>,
               <<14, 10>>,
               <<17, 13, 10>>,
               <<19, 15, 12, 10>>,
               <<21, 17, 14, 12, 10>>,
               <<23, 18, 16, 13, 12, 10>>,
               <<24, 20, 17, 15, 13, 11, 10>> >>

Idf(n, df) == IdfTable[n][df]

\* fit_transform(docs) of a TfidfVectorizer(ngram_range=(1, ngram_max),
\* min_df=1, max_df=max_df_pct/100): the error it raises, or the fitted
\* vocabulary and the tf-idf rows
FitTransform(docs, ngram_max, max_df_pct) ==
    LET n == Len(docs)
        analyzed == [i \in 1..n |-> Analyze(docs[i], ngram_max)] \o <<>>
        terms == UNION {Range(analyzed[i]) : i \in 1..n}
        df == [t \in terms |-> Cardinality({i \in 1..n : t \in Range(analyzed[i])})] @@ <<>>
        kept == {t \in terms : df[t] * 100 <= max_df_pct * n /\ df[t] >= 1}
    IN  IF terms = {}
        THEN [error |-> "empty vocabulary; perhaps the documents only contain stop words",
              vocabulary |-> {}, rows |-> <<>>]
        ELSE IF max_df_pct * n < 100
        THEN [error |-> "max_df corresponds to < documents than min_df",
              vocabulary |-> {}, rows |-> <<>>]
        ELSE IF kept = {}
        THEN [error |-> "After pruning, no terms remain. Try a lower min_df or a higher max_df.",
              vocabulary |-> {}, rows |-> <<>>]
        ELSE [error |-> NoException, vocabulary |-> kept,
              rows |-> [i \in 1..n |->
                          [t \in kept |-> Tf(t, analyzed[i]) * Idf(n, df[t])] @@ <<>>] \o <<>>]

RECURSIVE SumOver(_, _)
SumOver(S, f) ==
    IF S = {} THEN 0
    ELSE LET t == CHOOSE x \in S : TRUE IN f[t] + SumOver(S \ {t}, f)

RECURSIVE IsqrtRec(_, _, _)
IsqrtRec(n, lo, hi) ==
    IF lo >= hi THEN lo
    ELSE LET mid == (lo + hi + 1) \div 2
         IN  IF mid * mid <= n THEN IsqrtRec(n, mid, hi) ELSE IsqrtRec(n, lo, mid - 1)

\* floor of the square root
Isqrt(n) == IsqrtRec(n, 0, Min(n, 46340))

\* cosine_similarity of two tf-idf rows: dot product over the product of the
\* norms, 0 for a zero row.  A unit cosine is where the floating-point result
\* can come out one ulp above 1.0 (Scale + 1 here) on a platform that rounds up.
CosineSimilarity(x, y) ==
    LET T == DOMAIN x
        dot == SumOver(T, [t \in T |-> x[t] * y[t]])
        nx == SumOver(T, [t \in T |-> x[t] * x[t]])
        ny == SumOver(T, [t \in T |-> y[t] * y[t]])
        exact == (Scale * dot) \div Isqrt(nx * ny)
    IN  IF nx = 0 \/ ny = 0 THEN 0
        ELSE IF exact = Scale /\ roundUp THEN Scale + 1
        ELSE exact

-----------------------------------------------------------------------------
(* utils/models.py: DuplicateDetectionResult *)

\* a constructor without field constraints: any score is accepted
UnvalidatedResult(is_duplicate, duplicate_of, similarity_score, similarity_reasons, confidence_score, recommendation) ==
    [exc |-> NoException,
     value |-> [is_duplicate |-> is_duplicate,
                duplicate_of |-> duplicate_of,
                similarity_score |-> similarity_score,
                similarity_reasons |-> similarity_reasons,
                confidence_score |-> confidence_score,
                recommendation |-> recommendation]]

\* the constructor: pydantic validates ge=0, le=1 on both scores and raises a
\* ValidationError otherwise
DuplicateDetectionResult(is_duplicate, duplicate_of, similarity_score, similarity_reasons, confidence_score, recommendation) ==
    IF /\ 0 <= similarity_score /\ similarity_score <= Scale
       /\ 0 <= confidence_score /\ confidence_score <= Scale
    THEN [exc |-> NoException,
          value |-> [is_duplicate |-> is_duplicate,
                     duplicate_of |-> duplicate_of,
                     similarity_score |-> similarity_score,
                     similarity_reasons |-> similarity_reasons,
                     confidence_score |-> confidence_score,
                     recommendation |-> recommendation]]
    ELSE [exc |-> "ValidationError", value |-> NoneRef]

\* a recommendation string: its fixed wording, the issue id and the error
\* message formatted into it ("" where the wording has no such part)
Recommendation(text, issue_id, error) ==
    [text |-> text, issue_id |-> issue_id, error |-> error]

-----------------------------------------------------------------------------
(* CosineDuplicateAnalyzer._calculate_text_similarity and                  *)
(* _calculate_similarity_reasons                                           *)

\* the cosine of the two rows of a fit, 0.0 where the vectorizer raised
PairSimilarity(fit) ==
    IF fit.error # NoException THEN 0 ELSE CosineSimilarity(fit.rows[1], fit.rows[2])

_calculate_text_similarity(text1, text2) ==
    IF text1 = <<>> \/ text2 = <<>> THEN 0
    ELSE With(FitTransform(<<text1, text2>>, 1, 100), PairSimilarity)

\* f"{x:.2f}": the score in hundredths
Format2f(score) == (score + 5) \div 10

\* a reason string: its wording, the number and the words formatted into it
Reason(text, value, words) == [text |-> text, value |-> value, words |-> words]

\* iteration order of a set of strings: Python leaves it to the hash seed of
\* the process; seed 0 lists the words in ascending order, any other seed in
\* descending order
RECURSIVE SeqLess(_, _)
SeqLess(a, b) ==
    IF a = <<>> THEN b # <<>>
    ELSE IF b = <<>> THEN FALSE
    ELSE IF Head(a) = Head(b) THEN SeqLess(Tail(a), Tail(b))
    ELSE \E i, j \in 1..Len(CharOrder) :
            CharOrder[i] = Head(a) /\ CharOrder[j] = Head(b) /\ i < j

RECURSIVE SetToSeq(_, _)
SetToSeq(S, seed) ==
    IF S = {} THEN <<>>
    ELSE LET first == CHOOSE w \in S : \A v \in S \ {w} :
                          IF seed = 0 THEN SeqLess(w, v) ELSE SeqLess(v, w)
         IN  <<first>> \o SetToSeq(S \ {first}, seed)

\* no slice at all
SliceAll(s, k) == s

\* s[:k] of Python, k of either sign
Slice(s, k) ==
    IF k >= 0 THEN SubSeq(s, 1, Min(k, Len(s)))
    ELSE SubSeq(s, 1, Len(s) + k)

\* bands that take in their lower edges
ScoreReasonInclusive(similarity_score) ==
    IF similarity_score >= 800
    THEN <<Reason("Very high overall similarity score", 0, <<>>)>>
    ELSE IF similarity_score >= 600
    THEN <<Reason("High overall similarity score", 0, <<>>)>>
    ELSE IF similarity_score >= 400
    THEN <<Reason("Moderate overall similarity score", 0, <<>>)>>
    ELSE <<>>

\* keywords listed from three common words on
ImportantWordsFromThree(common_words, important_words) ==
    IF Cardinality(common_words) >= 3 /\ important_words # <<>>
    THEN <<Reason("Common keywords: ", 0, Slice(important_words, 5))>>
    ELSE <<>>

\* if title_similarity > 0.5
TitleReason(title_similarity) ==
    IF title_similarity > 500
    THEN <<Reason("Similar titles (similarity: ", Format2f(title_similarity), <<>>)>>
    ELSE <<>>

\* if desc_similarity > 0.3
DescriptionReason(desc_similarity) ==
    IF desc_similarity > 300
    THEN <<Reason("Similar descriptions (similarity: ", Format2f(desc_similarity), <<>>)>>
    ELSE <<>>

\* if len(common_words) > 3 and there are important words: up to five of them
ImportantWordsReason(common_words, important_words) ==
    IF Cardinality(common_words) > 3 /\ important_words # <<>>
    THEN <<Reason("Common keywords: ", 0, Slice(important_words, 5))>>
    ELSE <<>>

KeywordsReason(common_words) ==
    ImportantWordsReason(common_words,
                         SelectSeq(SetToSeq(common_words, hashSeed),
                                   LAMBDA word : Len(word) > 3))

\* the band of the overall score
ScoreReason(similarity_score) ==
    IF similarity_score > 800
    THEN <<Reason("Very high overall similarity score", 0, <<>>)>>
    ELSE IF similarity_score > 600
    THEN <<Reason("High overall similarity score", 0, <<>>)>>
    ELSE IF similarity_score > 400
    THEN <<Reason("Moderate overall similarity score", 0, <<>>)>>
    ELSE <<>>

_calculate_similarity_reasons(new_issue_title, new_issue_description, similar_issue, similarity_score) ==
    With(_calculate_text_similarity(_preprocess_text(new_issue_title),
                                    _preprocess_text(similar_issue.title)),
         TitleReason)
    \o (IF Truthy(new_issue_description) /\ Truthy(similar_issue.description)
        THEN With(_calculate_text_similarity(_preprocess_text(new_issue_description),
                                             _preprocess_text(similar_issue.description)),
                  DescriptionReason)
        ELSE <<>>)
    \o With(Range(Split(_preprocess_text(
                 Format(new_issue_title) \o <<" ">> \o Format(new_issue_description))))
            \cap Range(Split(_preprocess_text(
                 similar_issue.title \o <<" ">> \o similar_issue.description))),
            KeywordsReason)
    \o ScoreReason(similarity_score)

-----------------------------------------------------------------------------
(* CosineDuplicateAnalyzer.detect_duplicate *)

OpenStatus == <<"o", "p", "e", "n">>

\* no filter: every issue is a candidate
AllIssues(issues) == issues

\* [issue for issue in existing_issues if issue.status.lower() == "open"]
OpenIssues(issues) == SelectSeq(issues, LAMBDA issue : Lower(issue.status) = OpenStatus)

\* the last index, whatever the entries
ArgLast(similarities) == Len(similarities)

\* the last index of the largest entry
ArgMaxLast(similarities) ==
    CHOOSE i \in DOMAIN similarities :
        /\ \A j \in DOMAIN similarities : similarities[j] <= similarities[i]
        /\ \A j \in (i + 1)..Len(similarities) : similarities[j] < similarities[i]

\* np.argmax: the first index of the largest entry
ArgMax(similarities) ==
    CHOOSE i \in DOMAIN similarities :
        /\ \A j \in DOMAIN similarities : similarities[j] <= similarities[i]
        /\ \A j \in 1..(i - 1) : similarities[j] < similarities[i]

\* cosine_similarity(tfidf_matrix[0:1], tfidf_matrix[1:])[0]
Similarities(rows) ==
    [i \in 1..(Len(rows) - 1) |-> CosineSimilarity(rows[1], rows[i + 1])] \o <<>>

\* a vectorizer without max_df: no term is too frequent to keep
RankIssuesEveryTerm(new_issue_title, new_issue_description, issues) ==
    LET new_issue_text == _combine_new_issue_text(new_issue_title, new_issue_description)
        existing_texts == [i \in 1..Len(issues) |-> _combine_issue_text(issues[i])] \o <<>>
        all_texts == <<new_issue_text>> \o existing_texts
        fit == FitTransform(all_texts, 2, 100)
    IN  IF fit.error # NoException
        THEN [error |-> fit.error, similarities |-> <<>>, vocabulary |-> {}]
        ELSE [error |-> NoException, similarities |-> Similarities(fit.rows),
              vocabulary |-> fit.vocabulary]

\* combine, vectorize and compare (the same lines open both try blocks): the
\* exception raised, or the similarities and the fitted vocabulary
RankIssues(new_issue_title, new_issue_description, issues) ==
    LET new_issue_text == _combine_new_issue_text(new_issue_title, new_issue_description)
        existing_texts == [i \in 1..Len(issues) |-> _combine_issue_text(issues[i])] \o <<>>
        all_texts == <<new_issue_text>> \o existing_texts
        fit == FitTransform(all_texts, 2, 95)
    IN  IF fit.error # NoException
        THEN [error |-> fit.error, similarities |-> <<>>, vocabulary |-> {}]
        ELSE [error |-> NoException, similarities |-> Similarities(fit.rows),
              vocabulary |-> fit.vocabulary]

\* what a call hands back: the value it returns or the exception it raises,
\* and the vocabulary it leaves in self.vectorizer
Outcome(exc, value, vocabulary) ==
    [raised |-> exc # NoException, exc |-> exc, value |-> value,
     vocabulary |-> vocabulary]

\* a confidence whose low band is set by self.confidence_threshold
GatedConfidence(max_similarity_score) ==
    IF max_similarity_score < confidence_threshold THEN max_similarity_score
    ELSE Min((max_similarity_score * 12) \div 10, Scale)

\* min(max_similarity_score * 1.2, 1.0), overridden by the score itself below 0.3
ConfidenceScore(max_similarity_score) ==
    IF max_similarity_score < 300 THEN max_similarity_score
    ELSE Min((max_similarity_score * 12) \div 10, Scale)

\* an exclusive boundary
IsAboveThreshold(max_similarity_score, threshold) == max_similarity_score > threshold

\* the comparison reversed
IsBelowThreshold(max_similarity_score, threshold) == max_similarity_score <= threshold

\* max_similarity_score >= self.similarity_threshold
IsDuplicate(max_similarity_score, threshold) == max_similarity_score >= threshold

\* a recommendation that never suggests a review
RecommendationNoReview(is_duplicate, max_similarity_score, issue_id) ==
    IF is_duplicate
    THEN Recommendation("This issue appears to be a duplicate of issue {}. Consider linking to the original issue and closing this one.",
                        issue_id, "")
    ELSE Recommendation("This appears to be a new, unique issue.", "", "")

\* the recommendation for the decision taken
RecommendationFor(is_duplicate, max_similarity_score, issue_id) ==
    IF is_duplicate
    THEN Recommendation("This issue appears to be a duplicate of issue {}. Consider linking to the original issue and closing this one.",
                        issue_id, "")
    ELSE IF max_similarity_score > 500
    THEN Recommendation("This issue shows moderate similarity to issue {}. Review both issues to determine if they are related or should be merged.",
                        issue_id, "")
    ELSE Recommendation("This appears to be a new, unique issue.", "", "")

\* return the constructed result, or raise what its construction raised
Returning(made, vocabulary) == Outcome(made.exc, made.value, vocabulary)

\* the decision, the confidence, the reasons, the recommendation and the
\* result for the most similar issue
Decide(most_similar_issue, max_similarity_score, is_duplicate, new_issue_title, new_issue_description, vocabulary) ==
    With(DuplicateDetectionResult(
             is_duplicate,
             IF is_duplicate THEN most_similar_issue ELSE NoneRef,
             max_similarity_score,
             _calculate_similarity_reasons(new_issue_title, new_issue_description,
                                           most_similar_issue, max_similarity_score),
             ConfidenceScore(max_similarity_score),
             RecommendationFor(is_duplicate, max_similarity_score,
                               most_similar_issue.issue_id)),
         LAMBDA made : Returning(made, vocabulary))

\* the try block from the similarities on
Classify(fit, new_issue_title, new_issue_description, open_issues, threshold, vocabulary) ==
    IF fit.error # NoException THEN Outcome(fit.error, NoneRef, vocabulary)
    ELSE With(ArgMax(fit.similarities), LAMBDA max_similarity_idx :
             Decide(open_issues[max_similarity_idx],
                    fit.similarities[max_similarity_idx],
                    IsDuplicate(fit.similarities[max_similarity_idx], threshold),
                    new_issue_title, new_issue_description, fit.vocabulary))

\* a try block whose vectorizer can be fitted only once
DetectBodyFitOnce(new_issue_title, new_issue_description, open_issues, threshold, vocabulary) ==
    IF vocabulary # {} THEN Outcome("AlreadyFittedError", NoneRef, vocabulary)
    ELSE With(RankIssues(new_issue_title, new_issue_description, open_issues), LAMBDA fit :
             Classify(fit, new_issue_title, new_issue_description, open_issues, threshold,
                      vocabulary))

\* a try block that fits its vectorizer on the first call only: once fitted,
\* the vectorizer knows none of the terms of another call
DetectBodySharedFit(new_issue_title, new_issue_description, open_issues, threshold, vocabulary) ==
    With(RankIssues(new_issue_title, new_issue_description, open_issues), LAMBDA fit :
        Classify(IF vocabulary # {} /\ fit.error = NoException
                 THEN [fit EXCEPT !.similarities = [i \in 1..Len(open_issues) |-> 0] \o <<>>,
                                  !.vocabulary = vocabulary]
                 ELSE fit,
                 new_issue_title, new_issue_description, open_issues, threshold,
                 vocabulary))

\* the body of the try block
DetectBody(new_issue_title, new_issue_description, open_issues, threshold, vocabulary) ==
    With(RankIssues(new_issue_title, new_issue_description, open_issues), LAMBDA fit :
        Classify(fit, new_issue_title, new_issue_description, open_issues, threshold,
                 vocabulary))

\* no handler: the exception reaches the caller
Reraise(e, vocabulary) == Outcome(e, NoneRef, vocabulary)

\* a fallback result that claims full confidence
ConfidentFallback(e, vocabulary) ==
    Outcome(NoException,
            [is_duplicate |-> FALSE, duplicate_of |-> NoneRef, similarity_score |-> 0,
             similarity_reasons |-> <<>>, confidence_score |-> Scale,
             recommendation |->
                 Recommendation("Unable to perform similarity analysis due to error: {}. Manual review required.",
                                "", e)],
            vocabulary)

\* except Exception as e: the fallback result
DetectExcept(e, vocabulary) ==
    LET made == DuplicateDetectionResult(
                    FALSE, NoneRef, 0, <<>>, 0,
                    Recommendation("Unable to perform similarity analysis due to error: {}. Manual review required.",
                                   "", e))
    IN  Outcome(made.exc, made.value, vocabulary)

\* an empty-candidate result with no confidence
NoOpenIssuesUnsure(vocabulary) ==
    Outcome(NoException,
            [is_duplicate |-> FALSE, duplicate_of |-> NoneRef, similarity_score |-> 0,
             similarity_reasons |-> <<>>, confidence_score |-> 0,
             recommendation |->
                 Recommendation("No open issues to compare against. This appears to be a new issue.",
                                "", "")],
            vocabulary)

\* the result for an empty list of open issues
NoOpenIssues(vocabulary) ==
    LET made == DuplicateDetectionResult(
                    FALSE, NoneRef, 0, <<>>, Scale,
                    Recommendation("No open issues to compare against. This appears to be a new issue.",
                                   "", ""))
    IN  Outcome(made.exc, made.value, vocabulary)

detect_duplicate(new_issue_title, new_issue_description, issues, threshold, vocabulary) ==
    LET open_issues == OpenIssues(issues)
    IN  IF open_issues = <<>> THEN NoOpenIssues(vocabulary)
        ELSE With(DetectBody(new_issue_title, new_issue_description, open_issues,
                             threshold, vocabulary),
                  LAMBDA body :
                      IF body.raised THEN DetectExcept(body.exc, body.vocabulary)
                      ELSE body)

-----------------------------------------------------------------------------
(* CosineDuplicateAnalyzer.find_most_similar_issues *)

\* the orders of the indices 1..n
Orders(n) == {order \in [1..n -> 1..n] : \A i, j \in 1..n : order[i] = order[j] => i = j}

\* np.argsort(similarities): the indices in ascending order of score.  The
\* default kind is not a stable sort, so the order of equal scores is the
\* build's: every order of them is a possible result.
ArgSorts(similarities) ==
    {order \in Orders(Len(similarities)) :
        \A i, j \in DOMAIN similarities :
            i < j => similarities[order[i]] <= similarities[order[j]]}

\* s[::-1]
Reversed(s) == [i \in 1..Len(s) |-> s[Len(s) + 1 - i]] \o <<>>

\* a ranking that leaves out the issues that are not open
TopKOpen(ranked, order, issues, top_k, vocabulary) ==
    IF issues = <<>> THEN Outcome(NoException, <<>>, vocabulary)
    ELSE IF ranked.error # NoException THEN Outcome(NoException, <<>>, vocabulary)
    ELSE
    LET similarities == ranked.similarities
        top_indices == Slice(Reversed(order), top_k)
        scored == [i \in 1..Len(top_indices) |->
                      [issue |-> issues[top_indices[i]],
                       score |-> similarities[top_indices[i]]]] \o <<>>
        results == SelectSeq(scored, LAMBDA r : r.score > 0 /\ Lower(r.issue.status) = OpenStatus)
    IN  Outcome(NoException, results, ranked.vocabulary)

\* the rest of the call, given what RankIssues handed over
TopK(ranked, order, issues, top_k, vocabulary) ==
    IF issues = <<>> THEN Outcome(NoException, <<>>, vocabulary)
    ELSE IF ranked.error # NoException THEN Outcome(NoException, <<>>, vocabulary)
    ELSE
    LET similarities == ranked.similarities
        top_indices == Slice(Reversed(order), top_k)
        scored == [i \in 1..Len(top_indices) |->
                      [issue |-> issues[top_indices[i]],
                       score |-> similarities[top_indices[i]]]] \o <<>>
        results == SelectSeq(scored, LAMBDA r : r.score > 0)
    IN  Outcome(NoException, results, ranked.vocabulary)

\* the results the call can return, one for each order argsort can give
find_most_similar_issues(new_issue_title, new_issue_description, issues, top_k, vocabulary) ==
    With(RankIssues(new_issue_title, new_issue_description, issues),
         LAMBDA ranked : {TopK(ranked, order, issues, top_k, vocabulary) :
                             order \in ArgSorts(ranked.similarities)})

-----------------------------------------------------------------------------
(* CosineDuplicateAnalyzer.batch_detect_duplicates *)

\* a loop that stops at the first item whose detection fell back
RECURSIVE BatchLoopAbort(_, _, _, _, _)
BatchLoopAbort(new_issues, issues, threshold, vocabulary, results) ==
    IF new_issues = <<>> THEN Outcome(NoException, results, vocabulary)
    ELSE With(detect_duplicate(Head(new_issues).title, Head(new_issues).description,
                               issues, threshold, vocabulary),
              LAMBDA result :
                  IF result.raised \/ result.value.recommendation.error # ""
                  THEN Outcome(NoException, results, result.vocabulary)
                  ELSE BatchLoopAbort(Tail(new_issues), issues, threshold,
                                      result.vocabulary, Append(results, result.value)))

\* for new_issue in new_issues: results.append(self.detect_duplicate(...))
RECURSIVE BatchLoop(_, _, _, _, _)
BatchLoop(new_issues, issues, threshold, vocabulary, results) ==
    IF new_issues = <<>> THEN Outcome(NoException, results, vocabulary)
    ELSE With(detect_duplicate(Head(new_issues).title, Head(new_issues).description,
                               issues, threshold, vocabulary),
              LAMBDA result :
                  IF result.raised THEN result
                  ELSE BatchLoop(Tail(new_issues), issues, threshold, result.vocabulary,
                                 Append(results, result.value)))

\* a batch whose results come back in reverse order
BatchReversed(new_issues, issues, threshold, vocabulary) ==
    With(BatchLoop(new_issues, issues, threshold, vocabulary, <<>>),
         LAMBDA out : [out EXCEPT !.value =
                          [i \in 1..Len(out.value) |-> out.value[Len(out.value) + 1 - i]]])

batch_detect_duplicates(new_issues, issues, threshold, vocabulary) ==
    BatchLoop(new_issues, issues, threshold, vocabulary, <<>>)

-----------------------------------------------------------------------------
(* The analyzer and its caller *)

Bug == <<"B", "u", "g", "!">>
TheUi == <<"t", "h", "e", " ", "u", "i">>

IssueTitles == {Bug, TheUi}
IssueDescriptions == {<<>>}
NewTitles == {<<>>, Bug, TheUi, None}
NewDescriptions == {<<>>, Bug, None}

Statuses == { <<"O", "p", "e", "n">>, <<"c", "l", "o", "s", "e", "d">> }

SimilarityThresholds == {0, 600, Scale}

HashSeeds == {0, 1}

IssueIds == <<"ISSUE-1", "ISSUE-2", "ISSUE-3", "ISSUE-4">>

\* the candidate lists: issue i of a list has the id IssueIds[i]
IssueLists ==
    UNION { { [i \in 1..n |-> [issue_id |-> IssueIds[i], title |-> c[i].title,
                               description |-> c[i].description, status |-> c[i].status]]
              : c \in [1..n -> [title : IssueTitles, description : IssueDescriptions,
                                status : Statuses]] }
            : n \in 0..MaxIssues }

NewIssues == [title : NewTitles, description : NewDescriptions]

TopKs == (-1)..MaxTopK

\* the dictionaries of a batch, each with the keys 'title' and 'description'
BatchIssues == { [title |-> Bug, description |-> <<>>],
                 [title |-> TheUi, description |-> Bug] }

BatchLists == UNION { [1..n -> BatchIssues] : n \in 0..MaxBatch }

\* no call of a Gemini analyzer or of the loader was made
NoCall ==
    /\ pc = "idle"
    /\ args = NoneRef
    /\ attempt = 0
    /\ model_calls = 0
    /\ log = <<>>
    /\ answer = NoneRef

\* __init__, and the data the caller holds
Init ==
    /\ NoCall
    /\ similarity_threshold \in SimilarityThresholds
    /\ confidence_threshold = 600
    /\ vocabulary_ = {}
    /\ roundUp \in BOOLEAN
    /\ hashSeed = 0
    /\ new_issue \in NewIssues
    /\ existing_issues \in IssueLists
    /\ ret = [call |-> "__init__", top_k |-> 0, new_issues |-> <<>>, raised |-> FALSE, exc |-> NoException,
              value |-> NoneRef]

DetectDuplicate ==
    \E out \in {detect_duplicate(new_issue.title, new_issue.description, existing_issues,
                                similarity_threshold, vocabulary_)} :
        /\ ret' = [call |-> "detect_duplicate", top_k |-> 0, new_issues |-> <<>>, raised |-> out.raised,
                   exc |-> out.exc, value |-> out.value]
        /\ vocabulary_' = out.vocabulary
        /\ UNCHANGED callVars
        /\ UNCHANGED <<similarity_threshold, confidence_threshold, roundUp, hashSeed,
                       new_issue, existing_issues>>

FindMostSimilarIssues ==
    \E ranked \in {RankIssues(new_issue.title, new_issue.description, existing_issues)} :
        \E top_k \in TopKs :
            \E order \in ArgSorts(ranked.similarities) :
                \E out \in {TopK(ranked, order, existing_issues, top_k, vocabulary_)} :
                    /\ ret' = [call |-> "find_most_similar_issues", top_k |-> top_k,
                               new_issues |-> <<>>, raised |-> out.raised, exc |-> out.exc,
                               value |-> out.value]
                    /\ vocabulary_' = out.vocabulary
                    /\ UNCHANGED callVars
                    /\ UNCHANGED <<similarity_threshold, confidence_threshold, roundUp,
                                   hashSeed, new_issue, existing_issues>>

BatchDetectDuplicates ==
    \E new_issues \in BatchLists :
        \E out \in {batch_detect_duplicates(new_issues, existing_issues,
                                            similarity_threshold, vocabulary_)} :
            /\ ret' = [call |-> "batch_detect_duplicates", top_k |-> 0,
                       new_issues |-> new_issues, raised |-> out.raised,
                       exc |-> out.exc, value |-> out.value]
            /\ vocabulary_' = out.vocabulary
            /\ UNCHANGED callVars
            /\ UNCHANGED <<similarity_threshold, confidence_threshold, roundUp,
                           hashSeed, new_issue, existing_issues>>

Next == DetectDuplicate \/ FindMostSimilarIssues

Spec == Init /\ [][Next]_vars

\* an analyzer at one threshold whose caller only runs batches: the single new
\* issue plays no part
InitBatch ==
    /\ Init
    /\ similarity_threshold = 600
    /\ new_issue = [title |-> <<>>, description |-> <<>>]

NextBatch == BatchDetectDuplicates

SpecBatch == InitBatch /\ [][NextBatch]_vars

-----------------------------------------------------------------------------
(* The paths that build an analyzer: direct construction and the two modes *)
(* of cli/cosine_check.py                                                  *)

\* the values a caller or a command line passes as a threshold
ThresholdArgs == {-100, 600, 1500}

\* main: --threshold and --confidence-threshold must be between 0.0 and 1.0
ThresholdsValid(threshold, confidence) ==
    /\ 0 <= threshold /\ threshold <= Scale
    /\ 0 <= confidence /\ confidence <= Scale

Paths == {"__init__", "main", "run_interactive_mode"}

\* a title that shares no word with any candidate
Lo1 == <<"L", "O", "1">>

ConfiguredNewIssues == [title : NewTitles \cup {Lo1}, description : NewDescriptions]

\* whether the path gets as far as building the analyzer: __init__ stores
\* what it is given, main enters run_interactive_mode before its threshold
\* checks and run_duplicate_detection after them
Constructs(path, threshold, confidence) ==
    IF path = "main" THEN ThresholdsValid(threshold, confidence) ELSE TRUE

InitConfigured ==
    /\ NoCall
    /\ \E path \in Paths :
          /\ similarity_threshold \in ThresholdArgs
          /\ confidence_threshold \in ThresholdArgs
          /\ Constructs(path, similarity_threshold, confidence_threshold)
    /\ vocabulary_ = {}
    /\ roundUp \in BOOLEAN
    /\ hashSeed = 0
    /\ new_issue \in ConfiguredNewIssues
    /\ existing_issues \in IssueLists
    /\ ret = [call |-> "__init__", top_k |-> 0, new_issues |-> <<>>, raised |-> FALSE,
              exc |-> NoException, value |-> NoneRef]

NextConfigured == DetectDuplicate

SpecConfigured == InitConfigured /\ [][NextConfigured]_vars

-----------------------------------------------------------------------------
(* The text helpers called on their own *)

TextChars == {"B", "u", "1", "_", "!", " ", "\t"}

Texts == UNION { [1..n -> TextChars] : n \in 0..MaxLen }

TextDescriptions == { <<>>, <<"0", "!", "L">> }

InitText ==
    /\ NoCall
    /\ similarity_threshold = 600
    /\ confidence_threshold = 600
    /\ vocabulary_ = {}
    /\ roundUp = FALSE
    /\ hashSeed = 0
    /\ new_issue \in [title : Texts \cup {None}, description : TextDescriptions \cup {None}]
    /\ existing_issues = <<>>
    /\ ret = [call |-> "__init__", top_k |-> 0, new_issues |-> <<>>, raised |-> FALSE,
              exc |-> NoException, value |-> NoneRef]

\* the value a helper returns
Returns(call, value) ==
    /\ ret' = [call |-> call, top_k |-> 0, new_issues |-> <<>>, raised |-> FALSE,
               exc |-> NoException, value |-> value]
    /\ UNCHANGED callVars
    /\ UNCHANGED <<similarity_threshold, confidence_threshold, vocabulary_, roundUp,
                   hashSeed, new_issue, existing_issues>>

PreprocessText == Returns("_preprocess_text", _preprocess_text(new_issue.title))

CombineNewIssueText ==
    Returns("_combine_new_issue_text",
            _combine_new_issue_text(new_issue.title, new_issue.description))

\* an IssueReference holds strings: pydantic rejects None for either field
CombineIssueText ==
    /\ new_issue.title # None
    /\ new_issue.description # None
    /\ Returns("_combine_issue_text",
               _combine_issue_text([issue_id |-> IssueIds[1], title |-> new_issue.title,
                                    description |-> new_issue.description,
                                    status |-> <<"O", "p", "e", "n">>]))

NextText == PreprocessText \/ CombineNewIssueText \/ CombineIssueText

SpecText == InitText /\ [][NextText]_vars

-----------------------------------------------------------------------------
(* One analyzer called again and again, each call with its own arguments   *)

SessionIssues == BatchIssues

\* the candidate lists of a session: none, or a full list whose candidates
\* after the first are open
SessionLists ==
    {issues \in IssueLists :
        \/ issues = <<>>
        \/ /\ Len(issues) = MaxIssues
           /\ \A i \in 2..Len(issues) : issues[i].status = <<"O", "p", "e", "n">>}

SessionBatches == {new_issues \in BatchLists : Len(new_issues) <= 1}

InitSession ==
    /\ InitBatch
    /\ existing_issues = <<>>

DetectDuplicateCall ==
    \E issue \in SessionIssues, issues \in SessionLists :
        \E out \in {detect_duplicate(issue.title, issue.description, issues,
                                    similarity_threshold, vocabulary_)} :
            /\ new_issue' = issue
            /\ existing_issues' = issues
            /\ ret' = [call |-> "detect_duplicate", top_k |-> 0, new_issues |-> <<>>,
                       raised |-> out.raised, exc |-> out.exc, value |-> out.value]
            /\ vocabulary_' = out.vocabulary
            /\ UNCHANGED callVars
            /\ UNCHANGED <<similarity_threshold, confidence_threshold, roundUp, hashSeed>>

FindMostSimilarIssuesCall ==
    \E issue \in SessionIssues, issues \in SessionLists, top_k \in {MaxTopK} :
        \E out \in find_most_similar_issues(issue.title, issue.description, issues,
                                            top_k, vocabulary_) :
            /\ new_issue' = issue
            /\ existing_issues' = issues
            /\ ret' = [call |-> "find_most_similar_issues", top_k |-> top_k,
                       new_issues |-> <<>>, raised |-> out.raised, exc |-> out.exc,
                       value |-> out.value]
            /\ vocabulary_' = out.vocabulary
            /\ UNCHANGED callVars
            /\ UNCHANGED <<similarity_threshold, confidence_threshold, roundUp, hashSeed>>

BatchDetectDuplicatesCall ==
    \E new_issues \in SessionBatches, issues \in SessionLists :
        \E out \in {batch_detect_duplicates(new_issues, issues, similarity_threshold,
                                            vocabulary_)} :
            /\ existing_issues' = issues
            /\ ret' = [call |-> "batch_detect_duplicates", top_k |-> 0,
                       new_issues |-> new_issues, raised |-> out.raised,
                       exc |-> out.exc, value |-> out.value]
            /\ vocabulary_' = out.vocabulary
            /\ UNCHANGED callVars
            /\ UNCHANGED <<similarity_threshold, confidence_threshold, roundUp, hashSeed,
                           new_issue>>

NextSession == DetectDuplicateCall \/ FindMostSimilarIssuesCall \/ BatchDetectDuplicatesCall

SpecSession == InitSession /\ [][NextSession]_vars

-----------------------------------------------------------------------------
(* Candidate lists long enough for two candidates to score the same above  *)
(* zero: a term that every document holds is pruned by max_df, so a tie    *)
(* needs a candidate without it.                                           *)

TieLists ==
    { [i \in 1..(MaxIssues + 1) |->
          [issue_id |-> IssueIds[i], title |-> c[i].title,
           description |-> c[i].description, status |-> c[i].status]]
      : c \in [1..(MaxIssues + 1) -> [title : IssueTitles, description : IssueDescriptions,
                                      status : Statuses]] }

InitTies ==
    /\ NoCall
    /\ similarity_threshold = 600
    /\ confidence_threshold = 600
    /\ vocabulary_ = {}
    /\ roundUp \in BOOLEAN
    /\ hashSeed = 0
    /\ new_issue \in {[title |-> Bug, description |-> <<>>],
                      [title |-> TheUi, description |-> Bug]}
    /\ existing_issues \in TieLists
    /\ ret = [call |-> "__init__", top_k |-> 0, new_issues |-> <<>>, raised |-> FALSE,
              exc |-> NoException, value |-> NoneRef]

NextTies == DetectDuplicate \/ FindMostSimilarIssues

SpecTies == InitTies /\ [][NextTies]_vars

-----------------------------------------------------------------------------
(* CosineDuplicateAnalyzer._calculate_similarity_reasons called on its own *)

LoginPageCrash ==
    <<"l", "o", "g", "i", "n", " ", "p", "a", "g", "e", " ", "c", "r", "a",
      "s", "h">>

ButtonErrorConsole ==
    <<"b", "u", "t", "t", "o", "n", " ", "e", "r", "r", "o", "r", " ", "c",
      "o", "n", "s", "o", "l", "e">>

BugUiTheOn ==
    <<"b", "u", "g", " ", "u", "i", " ", "t", "h", "e", " ", "o", "n">>

LoginBug ==
    <<"l", "o", "g", "i", "n", " ", "B", "u", "g", "!">>

ReasonTitles == {LoginPageCrash, BugUiTheOn, LoginBug}

ReasonDescriptions == {ButtonErrorConsole, BugUiTheOn, <<>>}

\* the overall scores passed in: the edges of the bands and both ends
ReasonScores == {0, 400, 401, 600, 601, 800, 801, Scale}

InitReasons ==
    /\ pc = "idle"
    /\ args \in [similarity_score : ReasonScores]
    /\ attempt = 0
    /\ model_calls = 0
    /\ log = <<>>
    /\ answer = NoneRef
    /\ similarity_threshold = 600
    /\ confidence_threshold = 600
    /\ vocabulary_ = {}
    /\ roundUp = FALSE
    /\ hashSeed \in HashSeeds
    /\ new_issue \in [title : ReasonTitles \cup {None},
                      description : ReasonDescriptions \cup {None}]
    /\ existing_issues \in
           { <<[issue_id |-> IssueIds[1], title |-> title, description |-> description,
                status |-> OpenStatus]>>
             : title \in ReasonTitles, description \in ReasonDescriptions }
    /\ ret = [call |-> "__init__", top_k |-> 0, new_issues |-> <<>>, raised |-> FALSE,
              exc |-> NoException, value |-> NoneRef]

CalculateSimilarityReasons ==
    Returns("_calculate_similarity_reasons",
            _calculate_similarity_reasons(new_issue.title, new_issue.description,
                                          existing_issues[1], args.similarity_score))

NextReasons == CalculateSimilarityReasons

SpecReasons == InitReasons /\ [][NextReasons]_vars

-----------------------------------------------------------------------------
(* utils/analyzer.py: GeminiIssueAnalyzer.analyze_issue.  The analyzer is  *)
(* built with the default prompt; what the model answers is the            *)
(* environment's choice.  A summary is held as len(summary.strip()).       *)

MaxRetries == 2         \* largest max_retries passed to a Gemini analyzer

DefaultRetries == 2     \* max_retries where the caller passes none

\* a step that raised, and a step that returned
Raises(exc) == [raised |-> TRUE, exc |-> exc, value |-> NoneRef]

Gives(value) == [raised |-> FALSE, exc |-> NoException, value |-> value]

IssueTypes == {"bug", "enhancement", "feature_request"}

Severities == {"low", "medium", "high", "critical"}

\* the phrases _is_low_quality_response looks for
GenericPhrases ==
    {"requires further investigation", "to be determined", "based on initial analysis"}

\* the phrases of GenericPhrases found in text.lower()
PhrasesIn(text) ==
    CASE text = "Requires further investigation" -> {"requires further investigation"}
      [] text = "To be determined after detailed analysis" -> {"to be determined"}
      [] text = "Based on initial analysis" -> {"based on initial analysis"}
      [] text = "Root cause to be determined" -> {"to be determined"}
      [] OTHER -> {}

\* any(word in text.lower() for word in words), a text being held as its
\* length and the words of the lists that it mentions
AnyWord(text, words) == text.mentions \cap words # {}

_extract_from_text(text) ==
    [issue_type |->
         IF AnyWord(text, {"enhancement", "improve", "optimize"}) THEN "enhancement"
         ELSE IF AnyWord(text, {"feature", "new", "add"}) THEN "feature_request"
         ELSE "bug",
     severity |->
         IF AnyWord(text, {"critical", "severe", "urgent"}) THEN "critical"
         ELSE IF AnyWord(text, {"high", "important"}) THEN "high"
         ELSE IF AnyWord(text, {"low", "minor"}) THEN "low"
         ELSE "medium",
     root_cause_analysis |-> [primary_cause |-> "Analysis based on codebase review"],
     proposed_solutions |->
         <<[description |-> "Requires further investigation",
            code_changes |-> "To be determined after detailed analysis",
            location |-> [file_path |-> "src/ansible_creator/"],
            rationale |-> "Based on initial analysis"]>>,
     confidence_score |-> 500,
     analysis_summary |-> IF text.length > 500 THEN 500 + 3 ELSE text.length]

\* the dictionary read from response.text: the JSON object where there is one
\* that json.loads accepts, the text extraction otherwise
_parse_gemini_response(response) ==
    IF response.kind = "json" THEN response.data ELSE _extract_from_text(response.text)

IssueAnalysisFields ==
    {"issue_type", "severity", "root_cause_analysis", "proposed_solutions",
     "confidence_score", "analysis_summary"}

\* IssueAnalysis(title=..., description=..., **analysis_data)
IssueAnalysis(title, description, analysis_data) ==
    IF {"title", "description"} \cap DOMAIN analysis_data # {} THEN Raises("TypeError")
    ELSE IF \/ ~(IssueAnalysisFields \subseteq DOMAIN analysis_data)
            \/ analysis_data.issue_type \notin IssueTypes
            \/ analysis_data.severity \notin Severities
            \/ analysis_data.confidence_score < 0
            \/ analysis_data.confidence_score > Scale
         THEN Raises("ValidationError")
    ELSE Gives([title |-> title, description |-> description] @@ analysis_data)

_is_low_quality_response(analysis) ==
    \/ PhrasesIn(analysis.root_cause_analysis.primary_cause) # {}
    \/ \E k \in DOMAIN analysis.proposed_solutions :
          "requires further investigation" \in PhrasesIn(analysis.proposed_solutions[k].description)
    \/ \E k \in DOMAIN analysis.proposed_solutions :
          "to be determined" \in PhrasesIn(analysis.proposed_solutions[k].code_changes)
    \/ \E k \in DOMAIN analysis.proposed_solutions :
          "based on initial analysis" \in PhrasesIn(analysis.proposed_solutions[k].rationale)
    \/ analysis.confidence_score < 600
    \/ \E k \in DOMAIN analysis.proposed_solutions :
          analysis.proposed_solutions[k].location.file_path = "src/ansible_creator/"
    \/ analysis.analysis_summary < 50

_create_fallback_analysis(title, description, error_msg) ==
    [title |-> title,
     description |-> description,
     issue_type |-> "bug",
     severity |-> "medium",
     root_cause_analysis |->
         [primary_cause |-> "Unable to analyze due to API error: {}", error |-> error_msg],
     proposed_solutions |->
         <<[description |-> "Manual analysis required",
            code_changes |-> "Please analyze manually",
            location |-> [file_path |-> "unknown"],
            rationale |-> "Automated analysis failed"]>>,
     confidence_score |-> 0,
     analysis_summary |-> 38]

\* a retry loop that goes round once more however many attempts were made
RetryAlways(i, max_retries) == TRUE

\* attempt < max_retries: another attempt follows this one
MayRetry(i, max_retries) == i < max_retries

\* the body of the try block of one attempt: model call, parsing, validation
AnalyzeOnce(title, issue_description, response) ==
    IF response.kind = "error" THEN Raises("APIError")
    ELSE IssueAnalysis(title, issue_description, _parse_gemini_response(response))

\* what an attempt came to
Quality(made) ==
    IF made.raised THEN "failed"
    ELSE IF _is_low_quality_response(made.value) THEN "low quality"
    ELSE "good"

GoodData ==
    [issue_type |-> "bug",
     severity |-> "high",
     root_cause_analysis |-> [primary_cause |-> "Arguments are split before quoting"],
     proposed_solutions |->
         <<[description |-> "Quote the arguments",
            code_changes |-> "Pass the value through shlex.quote",
            location |-> [file_path |-> "src/ansible_creator/cli.py"],
            rationale |-> "Keeps the value in one word"]>>,
     confidence_score |-> 850,
     analysis_summary |-> 120]

\* the JSON objects the model answers with
JsonData ==
    { GoodData,
      [GoodData EXCEPT !.confidence_score = 500],
      [GoodData EXCEPT !.confidence_score = 1500],
      [GoodData EXCEPT !.root_cause_analysis.primary_cause = "Root cause to be determined"],
      [GoodData EXCEPT !.analysis_summary = 10],
      [k \in IssueAnalysisFields \ {"analysis_summary"} |-> GoodData[k]] }

\* the plain texts the model answers with, or puts around broken JSON
PlainTexts ==
    { [length |-> 20, mentions |-> {}],
      [length |-> 600, mentions |-> {"improve", "urgent"}] }

\* what a generate_content call comes to
AnalysisResponses ==
    {[kind |-> "error"]}
        \cup {[kind |-> "json", data |-> data] : data \in JsonData}
        \cup {[kind |-> "text", text |-> text] : text \in PlainTexts}
        \cup {[kind |-> "malformed", text |-> text] : text \in PlainTexts}

AnalyzeTitles == {"", "App crashes"}

AnalyzeDescriptions == {"", "The app crashes sometimes"}

InitAnalyze ==
    /\ similarity_threshold = 600
    /\ confidence_threshold = 600
    /\ vocabulary_ = {}
    /\ roundUp = FALSE
    /\ hashSeed = 0
    /\ new_issue = [title |-> <<>>, description |-> <<>>]
    /\ existing_issues = <<>>
    /\ ret = [call |-> "__init__", top_k |-> 0, new_issues |-> <<>>, raised |-> FALSE,
              exc |-> NoException, value |-> NoneRef]
    /\ pc = "idle"
    /\ args \in [title : AnalyzeTitles, issue_description : AnalyzeDescriptions,
                 max_retries : -1..MaxRetries]
    /\ attempt = 0
    /\ model_calls = 0
    /\ log = <<>>
    /\ answer = NoneRef

cosineVars == <<similarity_threshold, confidence_threshold, vocabulary_, roundUp,
                hashSeed, new_issue, existing_issues, ret>>

\* the call, up to the first pass of `for attempt in range(max_retries + 1)`:
\* an empty range falls off the end of the function, which returns None
AnalyzeIssue ==
    /\ pc = "idle"
    /\ IF args.max_retries + 1 > 0
       THEN pc' = "analyze_issue" /\ answer' = answer
       ELSE pc' = "done" /\ answer' = Gives(NoneRef)
    /\ UNCHANGED <<args, attempt, model_calls, log>>
    /\ UNCHANGED cosineVars

\* one pass of the loop
AnalyzeAttempt ==
    /\ pc = "analyze_issue"
    /\ \E response \in AnalysisResponses :
          \E made \in {AnalyzeOnce(args.title, args.issue_description, response)} :
              /\ model_calls' = model_calls + 1
              /\ log' = Append(log, Quality(made))
              /\ IF Quality(made) # "good" /\ MayRetry(attempt, args.max_retries)
                 THEN /\ attempt' = attempt + 1
                      /\ UNCHANGED <<pc, answer>>
                 ELSE /\ pc' = "done"
                      /\ answer' =
                             IF made.raised
                             THEN Gives(_create_fallback_analysis(
                                            args.title, args.issue_description, made.exc))
                             ELSE made
                      /\ UNCHANGED attempt
    /\ UNCHANGED args
    /\ UNCHANGED cosineVars

NextAnalyze == AnalyzeIssue \/ AnalyzeAttempt

SpecAnalyze == InitAnalyze /\ [][NextAnalyze]_vars

-----------------------------------------------------------------------------
(* utils/duplicate/gemini_duplicate.py: GeminiDuplicateAnalyzer.           *)
(* detect_duplicate.  The candidates are the caller's existing_issues.     *)

\* parsed_data.get(key, default)
Get(parsed_data, key, default) ==
    IF key \in DOMAIN parsed_data THEN parsed_data[key] ELSE default

\* the JSON values of the fields the code converts or tests: a number, a
\* string, null
Num(n) == [num |-> n]

Str(s) == [str |-> s]

\* float(x) of a JSON value: a number converts, a string that spells none
\* raises ValueError, null raises TypeError
Float(x) ==
    IF "num" \in DOMAIN x THEN Gives(x.num)
    ELSE IF "str" \in DOMAIN x THEN Raises("ValueError")
    ELSE Raises("TypeError")

\* the truth value of a JSON string or null
JsonTruthy(x) == "str" \in DOMAIN x /\ x.str # ""

\* every candidate, whatever its status
EveryIssue(issues) == issues

\* [issue for issue in existing_issues if issue.status.lower() == "open"]
open_issues(issues) == SelectSeq(issues, LAMBDA issue : Lower(issue.status) = OpenStatus)

_extract_duplicate_from_text(text) ==
    [is_duplicate |-> AnyWord(text, {"duplicate", "same issue", "already reported"}),
     similarity_score |->
         IF AnyWord(text, {"very similar", "identical"}) THEN 800
         ELSE IF AnyWord(text, {"similar"}) THEN 600
         ELSE IF AnyWord(text, {"duplicate", "same issue", "already reported"}) THEN 300
         ELSE 100,
     similarity_reasons |->
         IF AnyWord(text, {"duplicate", "same issue", "already reported"})
         THEN <<"Analysis based on text review">> ELSE <<>>,
     confidence_score |-> 400,
     recommendation |-> "Manual review recommended due to parsing issues"]

\* the result dictionary built from a JSON object
ResultFromJson(parsed_data, similarity_score, confidence_score) ==
    IF similarity_score.raised THEN similarity_score
    ELSE IF confidence_score.raised THEN confidence_score
    ELSE Gives([is_duplicate |-> Get(parsed_data, "is_duplicate", FALSE),
                similarity_score |-> similarity_score.value,
                similarity_reasons |-> Get(parsed_data, "similarity_reasons", <<>>),
                confidence_score |-> confidence_score.value,
                recommendation |-> Get(parsed_data, "recommendation", "Manual review recommended")]
               @@ IF /\ Get(parsed_data, "is_duplicate", FALSE)
                     /\ "duplicate_issue_id" \in DOMAIN parsed_data
                  THEN [duplicate_issue_id |-> parsed_data.duplicate_issue_id]
                  ELSE <<>>)

_parse_duplicate_response(response) ==
    IF response.kind = "json"
    THEN ResultFromJson(response.data,
                        Float(Get(response.data, "similarity_score", Num(0))),
                        Float(Get(response.data, "confidence_score", Num(500))))
    ELSE Gives(_extract_duplicate_from_text(response.text))

\* next((issue for issue in open_issues if issue.issue_id == id), None)
FirstWithId(open, id) ==
    IF \E k \in DOMAIN open : open[k].issue_id = id
    THEN open[CHOOSE k \in DOMAIN open :
                  /\ open[k].issue_id = id
                  /\ \A j \in 1..(k - 1) : open[j].issue_id # id]
    ELSE NoneRef

\* DuplicateDetectionResult(**result_data), and the reference looked up for a
\* duplicate that names an issue
ResultOf(result_data, open, duplicate_result) ==
    IF duplicate_result.exc # NoException THEN Raises(duplicate_result.exc)
    ELSE IF /\ duplicate_result.value.is_duplicate
            /\ JsonTruthy(Get(result_data, "duplicate_issue_id", NoneRef))
         THEN Gives([duplicate_result.value EXCEPT
                         !.duplicate_of = FirstWithId(open, result_data.duplicate_issue_id.str)])
    ELSE Gives(duplicate_result.value)

\* the body of the try block of one attempt
DetectOnce(open, response) ==
    IF response.kind = "error" THEN Raises("APIError")
    ELSE With(_parse_duplicate_response(response),
              LAMBDA parsed :
                  IF parsed.raised THEN parsed
                  ELSE ResultOf(parsed.value, open,
                                DuplicateDetectionResult(
                                    parsed.value.is_duplicate, NoneRef,
                                    parsed.value.similarity_score,
                                    parsed.value.similarity_reasons,
                                    parsed.value.confidence_score,
                                    Recommendation(parsed.value.recommendation, "", ""))))

_create_fallback_result(error_msg) ==
    DuplicateDetectionResult(
        FALSE, NoneRef, 0, <<>>, 0,
        Recommendation("Unable to perform duplicate detection due to API error: {}. Manual review required.",
                       "", error_msg)).value

\* the result returned without a model call
NoOpenIssuesResult ==
    DuplicateDetectionResult(
        FALSE, NoneRef, 0, <<>>, Scale,
        Recommendation("No open issues to compare against. This appears to be a new issue.",
                       "", "")).value

DuplicateOfFirst ==
    [is_duplicate |-> TRUE,
     duplicate_issue_id |-> Str(IssueIds[1]),
     similarity_score |-> Num(850),
     similarity_reasons |-> <<"Both issues report the same error message">>,
     confidence_score |-> Num(900),
     recommendation |-> "This issue appears to be a duplicate. Link to the original issue and close this one."]

\* the JSON objects the model answers with
DuplicateJsonData ==
    { DuplicateOfFirst,
      [DuplicateOfFirst EXCEPT !.duplicate_issue_id = Str("ISSUE-404")],
      [DuplicateOfFirst EXCEPT !.is_duplicate = FALSE, !.duplicate_issue_id = NoneRef,
                               !.similarity_score = Num(200)],
      [DuplicateOfFirst EXCEPT !.similarity_score = Num(1500)],
      [DuplicateOfFirst EXCEPT !.confidence_score = Str("high")],
      [is_duplicate |-> FALSE] }

DuplicateTexts ==
    { [mentions |-> {}],
      [mentions |-> {"duplicate", "very similar", "similar"}] }

\* what a generate_content call comes to
DuplicateResponses ==
    {[kind |-> "error"]}
        \cup {[kind |-> "json", data |-> data] : data \in DuplicateJsonData}
        \cup {[kind |-> "text", text |-> text] : text \in DuplicateTexts}
        \cup {[kind |-> "malformed", text |-> text] : text \in DuplicateTexts}

InitGemini ==
    /\ similarity_threshold = 600
    /\ confidence_threshold = 600
    /\ vocabulary_ = {}
    /\ roundUp = FALSE
    /\ hashSeed = 0
    /\ new_issue = [title |-> <<>>, description |-> <<>>]
    /\ existing_issues \in IssueLists
    /\ ret = [call |-> "__init__", top_k |-> 0, new_issues |-> <<>>, raised |-> FALSE,
              exc |-> NoException, value |-> NoneRef]
    /\ pc = "idle"
    /\ args \in [new_issue_title : {"Login fails"},
                 new_issue_description : {"The login form rejects valid users"},
                 max_retries : -1..MaxRetries]
    /\ attempt = 0
    /\ model_calls = 0
    /\ log = <<>>
    /\ answer = NoneRef

\* the call, up to the first pass of the loop
GeminiDetectDuplicate ==
    /\ pc = "idle"
    /\ IF open_issues(existing_issues) = <<>>
       THEN pc' = "done" /\ answer' = Gives(NoOpenIssuesResult)
       ELSE IF args.max_retries + 1 > 0
            THEN pc' = "detect_duplicate" /\ answer' = answer
            ELSE pc' = "done" /\ answer' = Gives(NoneRef)
    /\ UNCHANGED <<args, attempt, model_calls, log>>
    /\ UNCHANGED cosineVars

\* one pass of the loop
GeminiAttempt ==
    /\ pc = "detect_duplicate"
    /\ \E response \in DuplicateResponses :
          \E made \in {DetectOnce(open_issues(existing_issues), response)} :
              /\ model_calls' = model_calls + 1
              /\ log' = Append(log, IF made.raised THEN "failed" ELSE "returned")
              /\ IF made.raised /\ MayRetry(attempt, args.max_retries)
                 THEN /\ attempt' = attempt + 1
                      /\ UNCHANGED <<pc, answer>>
                 ELSE /\ pc' = "done"
                      /\ answer' = IF made.raised
                                   THEN Gives(_create_fallback_result(made.exc))
                                   ELSE made
                      /\ UNCHANGED attempt
    /\ UNCHANGED args
    /\ UNCHANGED cosineVars

NextGemini == GeminiDetectDuplicate \/ GeminiAttempt

SpecGemini == InitGemini /\ [][NextGemini]_vars

-----------------------------------------------------------------------------
(* cli/cosine_check.py: the record loader.  A record is a JSON object; an  *)
(* identifier is a JSON number or string, a text is a JSON string or null. *)
(* The optional created_date and url play no part in detection.            *)

\* str(x) of a JSON number or string
PyStr(x) == IF "num" \in DOMAIN x THEN ToString(x.num) ELSE x.str

NoDescription ==
    <<"N", "o", " ", "d", "e", "s", "c", "r", "i", "p", "t", "i", "o", "n", " ",
      "p", "r", "o", "v", "i", "d", "e", "d">>

\* a loader that takes an empty title for a missing one
TitleOrEmpty(item) ==
    IF "title" \in DOMAIN item THEN Gives(Format(item.title)) ELSE Gives(<<>>)

IdOf(item) ==
    IF "issue_id" \in DOMAIN item THEN Gives(PyStr(item.issue_id))
    ELSE IF "id" \in DOMAIN item THEN Gives(PyStr(item.id))
    ELSE IF "number" \in DOMAIN item THEN Gives(PyStr(item.number))
    ELSE Raises("ValueError")

TitleOf(item) ==
    IF "title" \in DOMAIN item THEN Gives(Format(item.title)) ELSE Raises("ValueError")

DescriptionOf(item) ==
    IF "description" \in DOMAIN item THEN Format(item.description)
    ELSE IF "body" \in DOMAIN item
         THEN (IF Truthy(item.body) THEN Format(item.body) ELSE NoDescription)
    ELSE NoDescription

StatusOf(item) ==
    IF "status" \in DOMAIN item THEN Lower(Format(item.status))
    ELSE IF "state" \in DOMAIN item THEN Lower(Format(item.state))
    ELSE OpenStatus

Normalized(item, issue_id, title) ==
    IF issue_id.raised THEN issue_id
    ELSE IF title.raised THEN title
    ELSE Gives([issue_id |-> issue_id.value, title |-> title.value,
                description |-> DescriptionOf(item), status |-> StatusOf(item)])

normalize_issue_data(item) == Normalized(item, IdOf(item), TitleOf(item))

\* the loop of load_issues_from_file: the first record that fails ends the
\* process with sys.exit(1)
RECURSIVE LoadLoop(_, _)
LoadLoop(data, issues) ==
    IF data = <<>> THEN Gives(issues)
    ELSE With(normalize_issue_data(Head(data)),
              LAMBDA issue : IF issue.raised THEN Raises("SystemExit")
                             ELSE LoadLoop(Tail(data), Append(issues, issue.value)))

\* a file that is missing or is not JSON ends the process as well
load_issues_from_file(file) ==
    IF file.state # "json" THEN Raises("SystemExit") ELSE LoadLoop(file.data, <<>>)

IdParts ==
    { <<>>, [issue_id |-> Str("ISSUE-1")], [number |-> Num(42)],
      [id |-> Num(7), number |-> Num(42)] }

TitleParts == { <<>>, [title |-> Bug], [title |-> None] }

TextParts ==
    { <<>>,
      [status |-> <<"O", "p", "e", "n">>, body |-> <<>>],
      [state |-> <<"c", "l", "o", "s", "e", "d">>, description |-> TheUi],
      [status |-> <<"O", "p", "e", "n">>, state |-> <<"c", "l", "o", "s", "e", "d">>,
       body |-> Bug] }

\* the records of an issues file
Items == { id @@ title @@ text : id \in IdParts, title \in TitleParts, text \in TextParts }

\* the issues files: a list of records, a missing file, a file that is not JSON
Files ==
    { [state |-> "json", data |-> data] :
          data \in UNION { [1..n -> Items] : n \in 0..MaxIssues } }
        \cup { [state |-> state, data |-> <<>>] : state \in {"missing", "invalid"} }

InitLoad ==
    /\ similarity_threshold = 600
    /\ confidence_threshold = 600
    /\ vocabulary_ = {}
    /\ roundUp = FALSE
    /\ hashSeed = 0
    /\ new_issue = [title |-> Bug, description |-> TheUi]
    /\ existing_issues = <<>>
    /\ ret = [call |-> "__init__", top_k |-> 0, new_issues |-> <<>>, raised |-> FALSE,
              exc |-> NoException, value |-> NoneRef]
    /\ pc = "idle"
    /\ args \in [file : Files]
    /\ attempt = 0
    /\ model_calls = 0
    /\ log = <<>>
    /\ answer = NoneRef

\* existing_issues = load_issues_from_file(args.issues)
LoadIssuesFromFile ==
    /\ pc = "idle"
    /\ \E out \in {load_issues_from_file(args.file)} :
          /\ answer' = out
          /\ IF out.raised
             THEN pc' = "exited" /\ UNCHANGED existing_issues
             ELSE pc' = "loaded" /\ existing_issues' = out.value
    /\ UNCHANGED <<args, attempt, model_calls, log>>
    /\ UNCHANGED <<similarity_threshold, confidence_threshold, vocabulary_, roundUp,
                   hashSeed, new_issue, ret>>

\* result = analyzer.detect_duplicate(title, description, existing_issues)
RunDuplicateDetection == pc = "loaded" /\ DetectDuplicate

NextLoad == LoadIssuesFromFile \/ RunDuplicateDetection

SpecLoad == InitLoad /\ [][NextLoad]_vars

-----------------------------------------------------------------------------
(* Properties of detect_duplicate *)

\* the last call was detect_duplicate and it returned a result
Returned == ret.call = "detect_duplicate" /\ ~ret.raised

\* the open candidates, stated on the caller's list
OpenSublist == SelectSeq(existing_issues,
                         LAMBDA issue : Lower(issue.status) = <<"o", "p", "e", "n">>)

\* the similarities of the new issue to the open candidates
OpenRanking == RankIssues(new_issue.title, new_issue.description, OpenSublist)

\* C1: every result detect_duplicate returns has both scores in [0, 1]
C1_RangeInvariant ==
    Returned =>
        /\ 0 <= ret.value.similarity_score /\ ret.value.similarity_score <= Scale
        /\ 0 <= ret.value.confidence_score /\ ret.value.confidence_score <= Scale

\* a result whose confidence was capped at 1.0 while the similarity is below it
C1_Witness ==
    /\ Returned
    /\ ret.value.similarity_score > 0 /\ ret.value.similarity_score < Scale
    /\ ret.value.confidence_score = Scale

\* C2: duplicate_of is None exactly when is_duplicate is false, and a duplicate
\* names an open candidate whose similarity is the returned score and is the
\* largest of all
C2_DuplicateReference ==
    Returned =>
        /\ ~ret.value.is_duplicate => ret.value.duplicate_of = NoneRef
        /\ ret.value.is_duplicate =>
              /\ ret.value.duplicate_of # NoneRef
              /\ OpenRanking.error = NoException
              /\ \E i \in DOMAIN OpenSublist :
                    /\ ret.value.duplicate_of = OpenSublist[i]
                    /\ OpenRanking.similarities[i] = ret.value.similarity_score
                    /\ \A j \in DOMAIN OpenSublist :
                          OpenRanking.similarities[j] <= OpenRanking.similarities[i]

\* a duplicate of the second of two open candidates, which beats the first
C2_Witness ==
    /\ Returned
    /\ ret.value.is_duplicate
    /\ Len(OpenSublist) = 2
    /\ ret.value.duplicate_of = OpenSublist[2]
    /\ OpenRanking.similarities[1] < OpenRanking.similarities[2]

\* C3: with no open candidate the result is the fixed "no open issues" one
C3_EmptyCandidates ==
    (Returned /\ \A i \in DOMAIN existing_issues :
                    Lower(existing_issues[i].status) # <<"o", "p", "e", "n">>) =>
        /\ ret.value.is_duplicate = FALSE
        /\ ret.value.duplicate_of = NoneRef
        /\ ret.value.similarity_score = 0
        /\ ret.value.confidence_score = Scale
        /\ ret.value.similarity_reasons = <<>>
        /\ ret.value.recommendation =
               Recommendation("No open issues to compare against. This appears to be a new issue.",
                              "", "")

\* a call on a non-empty list none of whose issues is open, at threshold 0.0
C3_Witness ==
    /\ Returned
    /\ existing_issues # <<>>
    /\ OpenSublist = <<>>
    /\ similarity_threshold = 0

\* C4: the result is the one the same call gives on the sub-list of open
\* candidates, and duplicate_of is an open issue
C4_OnlyOpenParticipate ==
    Returned =>
        /\ ret.value = detect_duplicate(new_issue.title, new_issue.description,
                                        OpenSublist, similarity_threshold, vocabulary_).value
        /\ ret.value.duplicate_of # NoneRef =>
              Lower(ret.value.duplicate_of.status) = <<"o", "p", "e", "n">>

\* a duplicate found in a list whose first issue is closed
C4_Witness ==
    /\ Returned
    /\ ret.value.is_duplicate
    /\ Len(existing_issues) = 2
    /\ Lower(existing_issues[1].status) # <<"o", "p", "e", "n">>
    /\ ret.value.duplicate_of = existing_issues[2]

\* C5 (as the description and the tests state it): at the default threshold
\* an open candidate with the new issue's title and description gives a
\* similarity above 0.8 and is_duplicate, also when it is the only issue
C5_IdenticalIssueIsDuplicate ==
    (/\ Returned
     /\ similarity_threshold = 600
     /\ \E i \in DOMAIN OpenSublist :
           /\ OpenSublist[i].title = new_issue.title
           /\ OpenSublist[i].description = new_issue.description) =>
        /\ ret.value.similarity_score > 800
        /\ ret.value.is_duplicate

-----------------------------------------------------------------------------
(* Properties of find_most_similar_issues *)

Found == ret.call = "find_most_similar_issues" /\ ~ret.raised

\* the similarities of the new issue to every candidate, open or not
FullRanking == RankIssues(new_issue.title, new_issue.description, existing_issues)

\* the number of candidates with a non-zero similarity
NonZero ==
    With(FullRanking,
         LAMBDA ranking :
             IF ranking.error # NoException THEN 0
             ELSE Cardinality({i \in DOMAIN existing_issues : ranking.similarities[i] > 0}))

PositiveAndSorted ==
    /\ \A i \in DOMAIN ret.value : ret.value[i].score > 0
    /\ \A i \in DOMAIN ret.value : \A j \in DOMAIN ret.value :
          i < j => ret.value[i].score >= ret.value[j].score

\* C6 as stated: for every integer top_k, at most min(top_k, non-zero
\* candidates) entries (none where that is negative), all positive, sorted
\* by non-increasing score
C6_TopKEveryInteger ==
    Found => /\ Len(ret.value) <= IF ret.top_k < 0 THEN 0 ELSE Min(ret.top_k, NonZero)
             /\ PositiveAndSorted

\* C6: for top_k >= 0 at most min(top_k, non-zero candidates) entries, for
\* top_k < 0 at most as many as there are candidates less -top_k; for every
\* top_k the entries are positive and sorted by non-increasing score
C6_TopK ==
    Found => /\ ret.top_k >= 0 => Len(ret.value) <= Min(ret.top_k, NonZero)
             /\ ret.top_k < 0 =>
                   /\ Len(ret.value) <= NonZero
                   /\ Len(ret.value) <= Len(existing_issues) + ret.top_k
                         \/ Len(ret.value) = 0
             /\ PositiveAndSorted

\* top_k = 1 cuts two non-zero candidates down to one entry
C6_Witness ==
    /\ Found
    /\ ret.top_k = 1
    /\ NonZero = 2
    /\ Len(ret.value) = 1

-----------------------------------------------------------------------------
(* Properties of detect_duplicate, continued *)

\* C7: the same call on the same analyzer returns the same result again,
\* reasons and their order included, whatever the vectorizer holds by now
C7_Idempotent ==
    Returned =>
        LET again == detect_duplicate(new_issue.title, new_issue.description,
                                      existing_issues, similarity_threshold, vocabulary_)
        IN  ~again.raised /\ again.value = ret.value

\* a result with two reasons, returned by an analyzer fitted before
C7_Witness ==
    /\ Returned
    /\ Len(ret.value.similarity_reasons) >= 2
    /\ vocabulary_ # {}

LowerThresholds == {t \in {0, 300, 600, 800, Scale} : t <= similarity_threshold}

\* C8: a new issue flagged at the analyzer's threshold is flagged at every
\* lower threshold
C8_ThresholdMonotone ==
    (Returned /\ ret.value.is_duplicate) =>
        \A t1 \in LowerThresholds :
            detect_duplicate(new_issue.title, new_issue.description, existing_issues,
                             t1, vocabulary_).value.is_duplicate

\* flagged at 0.6 with a score strictly between the thresholds compared
C8_Witness ==
    /\ Returned
    /\ ret.value.is_duplicate
    /\ similarity_threshold = 600
    /\ ret.value.similarity_score > 600 /\ ret.value.similarity_score < Scale

\* C9: detect_duplicate raises nothing and returns a result with a
\* non-empty recommendation
C9_NeverRaises ==
    ret.call = "detect_duplicate" =>
        /\ ~ret.raised
        /\ ret.value # NoneRef
        /\ ret.value.recommendation.text # ""

\* a None title and a None description compared with an open candidate
C9_Witness ==
    /\ Returned
    /\ new_issue.title = None /\ new_issue.description = None
    /\ OpenSublist # <<>>

\* vectorization, the similarity computation or the construction of the
\* result fails
AnalysisFails ==
    \/ OpenRanking.error # NoException
    \/ \E i \in DOMAIN OpenRanking.similarities : OpenRanking.similarities[i] > Scale

\* C10: a failure with an open candidate gives the fallback result, whose
\* confidence 0.0 sets it apart from the empty-candidate result
C10_Fallback ==
    (Returned /\ OpenSublist # <<>> /\ AnalysisFails) =>
        /\ ret.value.is_duplicate = FALSE
        /\ ret.value.duplicate_of = NoneRef
        /\ ret.value.similarity_score = 0
        /\ ret.value.confidence_score = 0
        /\ ret.value.similarity_reasons = <<>>
        /\ ret.value.recommendation.text =
               "Unable to perform similarity analysis due to error: {}. Manual review required."
        /\ ret.value.recommendation.error # ""
        /\ ret.value.confidence_score # NoOpenIssues(vocabulary_).value.confidence_score

\* the vectorizer's ValueError turned into the fallback result
C10_Witness ==
    /\ Returned
    /\ OpenSublist # <<>>
    /\ OpenRanking.error # NoException
    /\ ret.value.recommendation.error = OpenRanking.error

-----------------------------------------------------------------------------
(* Properties of batch_detect_duplicates *)

Batched == ret.call = "batch_detect_duplicates"

\* the result of detect_duplicate for one item, run on a fresh analyzer
OnItsOwn(item) ==
    detect_duplicate(item.title, item.description, existing_issues, similarity_threshold, {})

\* C11: a batch returns one result per item, in input order, result i being
\* what detect_duplicate returns for item i on its own; an empty batch
\* returns an empty list
C11_BatchIsPerItem ==
    Batched =>
        /\ ~ret.raised
        /\ Len(ret.value) = Len(ret.new_issues)
        /\ \A i \in DOMAIN ret.new_issues : ret.value[i] = OnItsOwn(ret.new_issues[i]).value
        /\ ret.new_issues = <<>> => ret.value = <<>>

\* a batch of two items whose results differ
C11_Witness ==
    /\ Batched
    /\ Len(ret.new_issues) = 2
    /\ Len(ret.value) = 2
    /\ ret.value[1] # ret.value[2]

\* detection of this item fails: there is an open candidate, and the
\* vectorizer or the construction of the result raises
ItemFails(item) ==
    /\ OpenSublist # <<>>
    /\ With(RankIssues(item.title, item.description, OpenSublist),
            LAMBDA ranking :
                \/ ranking.error # NoException
                \/ \E k \in DOMAIN ranking.similarities : ranking.similarities[k] > Scale)

IsFallback(result) ==
    /\ result.is_duplicate = FALSE
    /\ result.duplicate_of = NoneRef
    /\ result.similarity_score = 0
    /\ result.confidence_score = 0
    /\ result.recommendation.text =
           "Unable to perform similarity analysis due to error: {}. Manual review required."

\* C12: a batch is as long as its input; an item whose detection fails gets
\* the fallback result, and every other item gets a result that is not the
\* fallback
C12_BatchIsolatesFailures ==
    Batched =>
        /\ ~ret.raised
        /\ Len(ret.value) = Len(ret.new_issues)
        /\ \A i \in DOMAIN ret.new_issues :
              IsFallback(ret.value[i]) <=> ItemFails(ret.new_issues[i])

\* the first item of two fails and the second is compared all the same
C12_Witness ==
    /\ Batched
    /\ Len(ret.new_issues) = 2
    /\ ItemFails(ret.new_issues[1])
    /\ ~ItemFails(ret.new_issues[2])
    /\ Len(ret.value) = 2
    /\ IsFallback(ret.value[1])
    /\ ~IsFallback(ret.value[2])

-----------------------------------------------------------------------------
(* Properties of the configuration *)

\* C13 (as the description states it): whatever path built the analyzer, no
\* detection call runs with a threshold outside [0, 1]
C13_ThresholdsInRange ==
    ret.call = "detect_duplicate" =>
        ThresholdsValid(similarity_threshold, confidence_threshold)

-----------------------------------------------------------------------------
(* Properties of the classification *)

\* detect_duplicate compared the new issue with open candidates and returned
\* what it found
NormalPath == Returned /\ OpenSublist # <<>> /\ ~AnalysisFails

\* the largest similarity to an open candidate
MaxScore ==
    With(Range(OpenRanking.similarities),
         LAMBDA scores : CHOOSE score \in scores : \A other \in scores : other <= score)

\* C14: is_duplicate is exactly max_score >= similarity_threshold: a score
\* equal to the threshold is a duplicate, a score below it is not
C14_InclusiveBoundary ==
    NormalPath =>
        /\ ret.value.similarity_score = MaxScore
        /\ ret.value.is_duplicate <=> MaxScore >= similarity_threshold
        /\ MaxScore = similarity_threshold => ret.value.is_duplicate
        /\ MaxScore < similarity_threshold => ~ret.value.is_duplicate

\* a positive maximum score that equals the threshold, flagged as duplicate
C14_Witness ==
    /\ NormalPath
    /\ MaxScore = similarity_threshold
    /\ MaxScore > 0
    /\ ret.value.is_duplicate

\* C15: on the normal path the confidence is the maximum score below 0.3 and
\* min(1.2 * score, 1.0) from 0.3 on, whatever confidence_threshold is
C15_ConfidenceFromScore ==
    NormalPath =>
        ret.value.confidence_score =
            IF MaxScore < 300 THEN MaxScore
            ELSE IF (MaxScore * 12) \div 10 > Scale THEN Scale
            ELSE (MaxScore * 12) \div 10

\* a boosted confidence on an analyzer whose confidence_threshold is above
\* every score
C15_Witness ==
    /\ NormalPath
    /\ confidence_threshold > Scale
    /\ MaxScore >= 300
    /\ ret.value.confidence_score > MaxScore

\* a positive score below 0.3 reported as its own confidence
C15_LowWitness ==
    /\ NormalPath
    /\ MaxScore > 0 /\ MaxScore < 300
    /\ ret.value.confidence_score = MaxScore

-----------------------------------------------------------------------------
(* Properties of find_most_similar_issues, continued *)

-----------------------------------------------------------------------------
(* Properties of the text helpers *)

Preprocessed == ret.call = "_preprocess_text"

\* C17: _preprocess_text returns the empty string for an empty or None text
\* and raises nothing
C17_EmptyText ==
    (Preprocessed /\ (new_issue.title = None \/ new_issue.title = <<>>)) =>
        /\ ~ret.raised
        /\ ret.value = <<>>

\* _preprocess_text called with None
C17_Witness ==
    /\ Preprocessed
    /\ new_issue.title = None
    /\ ret.value = <<>>

\* the characters the description lets through: lowercase letters and digits
Alphanumerics == LowerLetters \cup Digits

\* C18 (as the description states it): for a non-empty text the output holds
\* only lowercase alphanumeric characters and single spaces between them,
\* with no space at either end
C18_OnlyAlphanumerics ==
    (Preprocessed /\ new_issue.title # None /\ new_issue.title # <<>>) =>
        /\ \A i \in DOMAIN ret.value : ret.value[i] \in Alphanumerics \cup {" "}
        /\ ret.value # <<>> => ret.value[1] # " " /\ ret.value[Len(ret.value)] # " "
        /\ \A i \in 1..(Len(ret.value) - 1) : ~(ret.value[i] = " " /\ ret.value[i + 1] = " ")

\* the same with the underscore let through as well
C18_OnlyWordCharacters ==
    (Preprocessed /\ new_issue.title # None /\ new_issue.title # <<>>) =>
        /\ \A i \in DOMAIN ret.value : ret.value[i] \in Alphanumerics \cup {"_", " "}
        /\ ret.value # <<>> => ret.value[1] # " " /\ ret.value[Len(ret.value)] # " "
        /\ \A i \in 1..(Len(ret.value) - 1) : ~(ret.value[i] = " " /\ ret.value[i + 1] = " ")

Normalize(text) == _preprocess_text(text)

\* C19: the combined text is the normalized title twice and the normalized
\* description, joined by single spaces, and _combine_issue_text agrees with
\* _combine_new_issue_text on every issue
C19_CombinersAgree ==
    /\ ret.call = "_combine_issue_text" =>
          /\ ret.value = Normalize(new_issue.title) \o <<" ">> \o Normalize(new_issue.title)
                            \o <<" ">> \o Normalize(new_issue.description)
          /\ ret.value = _combine_new_issue_text(new_issue.title, new_issue.description)
    /\ ret.call = "_combine_new_issue_text" =>
          ret.value = Normalize(new_issue.title) \o <<" ">> \o Normalize(new_issue.title)
                         \o <<" ">> \o Normalize(new_issue.description)

\* an issue whose title and description both survive normalization
C19_Witness ==
    /\ ret.call = "_combine_issue_text"
    /\ Normalize(new_issue.title) # <<>>
    /\ Normalize(new_issue.description) # <<>>
    /\ Len(ret.value) = 2 * Len(Normalize(new_issue.title)) + 2
                           + Len(Normalize(new_issue.description))

-----------------------------------------------------------------------------
(* Properties of the recommendation *)

\* the id of an open candidate that attains the maximum score
MostSimilarId(issue_id) ==
    \E i \in DOMAIN OpenSublist :
        /\ OpenRanking.similarities[i] = MaxScore
        /\ OpenSublist[i].issue_id = issue_id

\* C20: a duplicate is recommended for closing and the recommendation names
\* the id of duplicate_of; a non-duplicate with a score above 0.5 is
\* recommended for review against the most similar issue; any other outcome
\* is called new and unique; no recommendation is empty
C20_Recommendation ==
    /\ NormalPath =>
          /\ ret.value.is_duplicate =>
                /\ ret.value.recommendation.text =
                       "This issue appears to be a duplicate of issue {}. Consider linking to the original issue and closing this one."
                /\ ret.value.recommendation.issue_id = ret.value.duplicate_of.issue_id
          /\ (~ret.value.is_duplicate /\ MaxScore > 500) =>
                /\ ret.value.recommendation.text =
                       "This issue shows moderate similarity to issue {}. Review both issues to determine if they are related or should be merged."
                /\ MostSimilarId(ret.value.recommendation.issue_id)
          /\ (~ret.value.is_duplicate /\ MaxScore <= 500) =>
                ret.value.recommendation.text = "This appears to be a new, unique issue."
    /\ Returned => ret.value.recommendation.text # ""

\* a score above 0.5 and below the threshold, recommended for review
C20_Witness ==
    /\ NormalPath
    /\ ~ret.value.is_duplicate
    /\ MaxScore > 500
    /\ ret.value.recommendation.issue_id # ""

-----------------------------------------------------------------------------
(* Properties of GeminiIssueAnalyzer.analyze_issue *)

\* the call of analyze_issue has ended
Analyzed == pc = "done" /\ "issue_description" \in DOMAIN args

\* C21: analyze_issue called with an empty title and an empty description
\* raises an exception instead of returning an analysis
C21_EmptyIssueRaises ==
    (/\ Analyzed
     /\ args.title = ""
     /\ args.issue_description = ""
     /\ args.max_retries = DefaultRetries) => answer.raised

\* the analysis the last attempt was classified on
IsFallbackAnalysis ==
    /\ answer.value.confidence_score = 0
    /\ answer.value.root_cause_analysis.primary_cause = "Unable to analyze due to API error: {}"

\* C30: with max_retries >= 0 analyze_issue makes at most max_retries + 1
\* attempts; every attempt before the last one made was low quality or failed
\* and was followed by another; a good analysis is returned by the attempt
\* that produced it; a low-quality analysis is returned only by attempt
\* max_retries + 1; a failure of that attempt returns the fallback analysis
\* with confidence 0.0
C30_BoundedRetries ==
    ("issue_description" \in DOMAIN args /\ args.max_retries >= 0) =>
        /\ Len(log) <= args.max_retries + 1
        /\ model_calls = Len(log)
        /\ \A k \in 1..(Len(log) - 1) : log[k] \in {"low quality", "failed"}
        /\ pc = "analyze_issue" =>
              /\ attempt = Len(log)
              /\ attempt <= args.max_retries
              /\ \A k \in DOMAIN log : log[k] \in {"low quality", "failed"}
        /\ pc = "done" =>
              /\ log # <<>>
              /\ ~answer.raised
              /\ answer.value # NoneRef
              /\ log[Len(log)] = "good" => ~_is_low_quality_response(answer.value)
              /\ log[Len(log)] = "low quality" =>
                    /\ Len(log) = args.max_retries + 1
                    /\ _is_low_quality_response(answer.value)
                    /\ ~IsFallbackAnalysis
              /\ log[Len(log)] = "failed" =>
                    /\ Len(log) = args.max_retries + 1
                    /\ IsFallbackAnalysis

\* two attempts were retried, one failed and one of low quality, and the
\* third and last returned a low-quality analysis
C30_Witness ==
    /\ Analyzed
    /\ args.max_retries = 2
    /\ log = <<"failed", "low quality", "low quality">>
    /\ ~IsFallbackAnalysis
    /\ answer.value.confidence_score = 500

\* a good analysis returned by the second of three possible attempts
C30_EarlyWitness ==
    /\ Analyzed
    /\ args.max_retries = 2
    /\ log = <<"low quality", "good">>

\* the last attempt failed and the fallback analysis came back
C30_FallbackWitness ==
    /\ Analyzed
    /\ args.max_retries = 1
    /\ log = <<"failed", "failed">>
    /\ IsFallbackAnalysis

-----------------------------------------------------------------------------
(* Properties of GeminiDuplicateAnalyzer.detect_duplicate *)

\* the call in hand is GeminiDuplicateAnalyzer.detect_duplicate
GeminiCall == "new_issue_title" \in DOMAIN args

\* the fallback result of the Gemini analyzer
IsGeminiFallback ==
    /\ ~answer.raised
    /\ answer.value.is_duplicate = FALSE
    /\ answer.value.similarity_score = 0
    /\ answer.value.confidence_score = 0

\* C29: with max_retries >= 0 and an open issue the call makes at most
\* max_retries + 1 model calls, returns at the first attempt that gives a
\* valid result, and after max_retries + 1 failed attempts returns the
\* fallback result without raising; with no open issue it makes no model call
C29_GeminiRetries ==
    GeminiCall =>
        /\ OpenSublist = <<>> => model_calls = 0
        /\ (OpenSublist # <<>> /\ args.max_retries >= 0) =>
              /\ model_calls <= args.max_retries + 1
              /\ model_calls = Len(log)
              /\ \A k \in 1..(Len(log) - 1) : log[k] = "failed"
              /\ pc = "detect_duplicate" => \A k \in DOMAIN log : log[k] = "failed"
              /\ pc = "done" =>
                    /\ log # <<>>
                    /\ ~answer.raised
                    /\ log[Len(log)] = "returned" => ~IsGeminiFallback
                    /\ log[Len(log)] = "failed" =>
                          /\ Len(log) = args.max_retries + 1
                          /\ IsGeminiFallback

\* three failed attempts with max_retries = 2 end in the fallback result
C29_Witness ==
    /\ GeminiCall
    /\ pc = "done"
    /\ args.max_retries = 2
    /\ log = <<"failed", "failed", "failed">>
    /\ model_calls = 3
    /\ IsGeminiFallback

\* a result returned by the second attempt, the third never made
C29_EarlyWitness ==
    /\ GeminiCall
    /\ pc = "done"
    /\ args.max_retries = 2
    /\ log = <<"failed", "returned">>
    /\ answer.value.duplicate_of # NoneRef

\* only closed candidates: the call ends without a model call
C29_ClosedWitness ==
    /\ GeminiCall
    /\ pc = "done"
    /\ existing_issues # <<>>
    /\ OpenSublist = <<>>
    /\ model_calls = 0
    /\ answer.value.confidence_score = Scale

-----------------------------------------------------------------------------
(* Properties of the record loader *)

\* the call in hand is the loader's
LoaderCall == "file" \in DOMAIN args

\* the record has a title and one of the identifier keys
WellFormed(item) ==
    /\ "title" \in DOMAIN item
    /\ {"issue_id", "id", "number"} \cap DOMAIN item # {}

\* C22: a record without a title or without any of issue_id, id and number
\* makes normalize_issue_data raise and the loader exit, and no detection
\* call follows; a loaded record without status and state has the status
\* "open", and every loaded status is in lower case
C22_LoaderRejectsMalformed ==
    LoaderCall =>
        /\ \A k \in DOMAIN args.file.data :
              ~WellFormed(args.file.data[k]) =>
                  /\ normalize_issue_data(args.file.data[k]).raised
                  /\ pc # "loaded"
                  /\ pc # "idle" => (pc = "exited" /\ answer.raised)
                  /\ ret.call = "__init__"
        /\ pc = "loaded" =>
              /\ Len(existing_issues) = Len(args.file.data)
              /\ \A k \in DOMAIN existing_issues :
                    /\ existing_issues[k].status = Lower(existing_issues[k].status)
                    /\ {"status", "state"} \cap DOMAIN args.file.data[k] = {} =>
                           existing_issues[k].status = <<"o", "p", "e", "n">>
        /\ ret.call # "__init__" => pc = "loaded"

\* a well-formed record before one without a title: the loader has exited
C22_Witness ==
    /\ LoaderCall
    /\ pc = "exited"
    /\ Len(args.file.data) = 2
    /\ WellFormed(args.file.data[1])
    /\ "title" \notin DOMAIN args.file.data[2]
    /\ "number" \in DOMAIN args.file.data[2]
    /\ ret.call = "__init__"

\* a record without status and state loaded as open, one with an upper-case
\* status loaded in lower case, and detection run on both
C22_LoadedWitness ==
    /\ LoaderCall
    /\ pc = "loaded"
    /\ Len(args.file.data) = 2
    /\ {"status", "state"} \cap DOMAIN args.file.data[1] = {}
    /\ "status" \in DOMAIN args.file.data[2]
    /\ args.file.data[2].status = <<"O", "p", "e", "n">>
    /\ existing_issues[2].status = <<"o", "p", "e", "n">>
    /\ ret.call = "detect_duplicate"

-----------------------------------------------------------------------------
(* Properties of _calculate_similarity_reasons *)

Reasoned == ret.call = "_calculate_similarity_reasons"

\* the place of a reason in the fixed order
KindOf(reason) ==
    CASE reason.text = "Similar titles (similarity: " -> 1
      [] reason.text = "Similar descriptions (similarity: " -> 2
      [] reason.text = "Common keywords: " -> 3
      [] reason.text \in {"Very high overall similarity score",
                          "High overall similarity score",
                          "Moderate overall similarity score"} -> 4
      [] OTHER -> 0

\* the band reasons among the reasons returned
Bands == {k \in DOMAIN ret.value : KindOf(ret.value[k]) = 4}

\* C27: the reasons come in the order title, description, keywords, band,
\* each kind at most once; a score above 0.4 gives exactly one band reason,
\* "Very high" above 0.8, "High" above 0.6, "Moderate" above 0.4, and a score
\* of at most 0.4 gives none
C27_ReasonOrderAndBand ==
    Reasoned =>
        /\ \A k \in DOMAIN ret.value : KindOf(ret.value[k]) \in 1..4
        /\ \A j, k \in DOMAIN ret.value :
              j < k => KindOf(ret.value[j]) < KindOf(ret.value[k])
        /\ args.similarity_score <= 400 => Bands = {}
        /\ args.similarity_score > 400 =>
              /\ Cardinality(Bands) = 1
              /\ \A k \in Bands :
                    ret.value[k].text =
                        IF args.similarity_score > 800 THEN "Very high overall similarity score"
                        ELSE IF args.similarity_score > 600 THEN "High overall similarity score"
                        ELSE "Moderate overall similarity score"

\* all four kinds in one list, the band being "High" at a score just above 0.6
C27_Witness ==
    /\ Reasoned
    /\ Len(ret.value) = 4
    /\ args.similarity_score = 601
    /\ ret.value[4].text = "High overall similarity score"

\* a score of exactly 0.4 with a title reason and no band
C27_EdgeWitness ==
    /\ Reasoned
    /\ args.similarity_score = 400
    /\ ret.value # <<>>
    /\ Bands = {}

\* the words of a text: lower case, every character that is neither a word
\* character nor a space taken for a space, split at the spaces
WordsOf(title, description) ==
    Range(Split(Normalize(Format(title) \o <<" ">> \o Format(description))))

\* the words the new issue and the matched issue share
SharedWords ==
    WordsOf(new_issue.title, new_issue.description)
        \cap WordsOf(existing_issues[1].title, existing_issues[1].description)

\* the keywords reasons among the reasons returned
Keywords == {k \in DOMAIN ret.value : KindOf(ret.value[k]) = 3}

\* C28: the "Common keywords" reason is there exactly when the two issues
\* share more than 3 words and one of the shared words is longer than 3
\* characters; it lists at most 5 words, each a shared word longer than 3
\* characters
C28_CommonKeywords ==
    Reasoned =>
        /\ Keywords # {} <=>
              /\ Cardinality(SharedWords) > 3
              /\ \E word \in SharedWords : Len(word) > 3
        /\ \A k \in Keywords :
              /\ Len(ret.value[k].words) <= 5
              /\ ret.value[k].words # <<>>
              /\ \A i \in DOMAIN ret.value[k].words :
                    /\ ret.value[k].words[i] \in SharedWords
                    /\ Len(ret.value[k].words[i]) > 3

\* six shared words longer than 3 characters, five of them listed
C28_Witness ==
    /\ Reasoned
    /\ Cardinality({word \in SharedWords : Len(word) > 3}) = 6
    /\ \E k \in Keywords : Len(ret.value[k].words) = 5

\* four shared words, none longer than 3 characters: no keywords reason
C28_ShortWitness ==
    /\ Reasoned
    /\ Cardinality(SharedWords) = 4
    /\ \A word \in SharedWords : Len(word) <= 3
    /\ Keywords = {}

\* three shared words, all longer than 3 characters: no keywords reason
C28_FewWitness ==
    /\ Reasoned
    /\ Cardinality(SharedWords) = 3
    /\ \A word \in SharedWords : Len(word) > 3
    /\ Keywords = {}

-----------------------------------------------------------------------------
(* Properties of the order among equal scores *)

\* the place of a returned issue in the caller's list
PlaceOf(issue) == CHOOSE i \in DOMAIN existing_issues : existing_issues[i] = issue

\* C24 (as the description states it): candidates with equal scores are
\* returned in their input order, and where top_k lets only one of them in,
\* it is the earlier one
C24_TiesInInputOrder ==
    Found =>
        /\ \A a, b \in DOMAIN ret.value :
              (a < b /\ ret.value[a].score = ret.value[b].score) =>
                  PlaceOf(ret.value[a].issue) < PlaceOf(ret.value[b].issue)
        /\ \A i, j \in DOMAIN existing_issues :
              (/\ i < j
               /\ FullRanking.error = NoException
               /\ FullRanking.similarities[i] = FullRanking.similarities[j]
               /\ \E b \in DOMAIN ret.value : ret.value[b].issue = existing_issues[j]) =>
                  \E a \in DOMAIN ret.value : ret.value[a].issue = existing_issues[i]

\* the first open candidate that attains the maximum score
FirstBest ==
    OpenSublist[CHOOSE i \in DOMAIN OpenSublist :
                    /\ OpenRanking.similarities[i] = MaxScore
                    /\ \A j \in 1..(i - 1) : OpenRanking.similarities[j] < MaxScore]

\* C25: where several open candidates attain the maximum score, the issue
\* detect_duplicate matches (duplicate_of, the reasons, the recommendation)
\* is the first of them in the input order of the open candidates
C25_FirstOfEqualMaxima ==
    NormalPath =>
        /\ ret.value.is_duplicate => ret.value.duplicate_of = FirstBest
        /\ (ret.value.is_duplicate \/ MaxScore > 500) =>
              ret.value.recommendation.issue_id = FirstBest.issue_id
        /\ ret.value.similarity_reasons =
               _calculate_similarity_reasons(new_issue.title, new_issue.description,
                                             FirstBest, MaxScore)

\* two open candidates attain the maximum score, and the earlier one is the
\* duplicate named
C25_Witness ==
    /\ NormalPath
    /\ MaxScore > 0
    /\ \E i, j \in DOMAIN OpenSublist :
          /\ i < j
          /\ OpenRanking.similarities[i] = MaxScore
          /\ OpenRanking.similarities[j] = MaxScore
          /\ ret.value.is_duplicate
          /\ ret.value.duplicate_of = OpenSublist[i]
          /\ ret.value.duplicate_of # OpenSublist[j]

-----------------------------------------------------------------------------
(* Properties of the fitted vocabulary *)

\* the terms of the documents of a detection call: the new issue, then the
\* open candidates
DocumentTerms ==
    <<Range(Analyze(_combine_new_issue_text(new_issue.title, new_issue.description), 2))>>
        \o [i \in 1..Len(OpenSublist) |-> Range(Analyze(_combine_issue_text(OpenSublist[i]), 2))]

\* the terms found in more than 95% of the documents
TooFrequent(terms) ==
    {t \in UNION Range(terms) :
        Cardinality({i \in DOMAIN terms : t \in terms[i]}) * 100 > 95 * Len(terms)}

C26_KeptWitness ==
    /\ NormalPath
    /\ Len(OpenSublist) = 2
    /\ ret.value.similarity_score > 0

-----------------------------------------------------------------------------
(* Properties of an analyzer called again and again *)

\* C23: no call changes a threshold, and whatever calls an analyzer served
\* before, detect_duplicate returns what the same call returns on an analyzer
\* just constructed with the same thresholds
C23_NoSharedState ==
    /\ [][/\ similarity_threshold' = similarity_threshold
          /\ confidence_threshold' = confidence_threshold]_vars
    /\ [](Returned =>
            With(detect_duplicate(new_issue.title, new_issue.description, existing_issues,
                                  similarity_threshold, {}),
                 LAMBDA fresh : ~fresh.raised /\ fresh.value = ret.value))

\* a call whose vectorizer could not be fitted, on an analyzer that an
\* earlier call had fitted on other candidates
C23_Witness ==
    /\ Returned
    /\ OpenSublist # <<>>
    /\ AnalysisFails
    /\ vocabulary_ # {}

\* a call with no open candidate on an analyzer fitted by an earlier call
C23_FittedWitness ==
    /\ Returned
    /\ OpenSublist = <<>>
    /\ vocabulary_ # {}

====
